---- MODULE Spec2Model ----
(***************************************************************************)
(* A model of smg-comms: the mapping client (MappingClient), the mapping   *)
(* server (MappingServer) with its per-client handler                      *)
(* (MappingClientHandler), the socket helpers (SocketUtil) and the pooled  *)
(* queue both sides hand frames over with.                                 *)
(*                                                                         *)
(* One client connection (client id 0) carries frames 1..MaxFrames.  A     *)
(* frame is identified by its frame index; a byte stream is a sequence of  *)
(* whole messages.                                                         *)
(***************************************************************************)
EXTENDS Integers, Sequences, FiniteSets, TLC

\* ------------------------------------------------------------------ bounds
\* Number of frames the client application sends.
MaxFrames == 6
\* Number of messages the client-to-server byte stream can buffer.
MaxWire == 2
\* Number of threads calling MappingServer.get_frame.
MaxConsumers == 2
\* Number of MappingClient.terminate() calls (explicit, __exit__, __del__).
MaxTerminates == 2

\* Largest msg.get_size() of the messages written and read on the byte stream.
MaxMsgSize == 2
\* Number of bytes written to the byte stream overall.
MaxBytes == 4
\* Number of socket.timeout exceptions raised in read_message.
MaxTimeouts == 2

\* Number of clients that connect to the skeleton detection service.
MaxClients == 2
\* Number of requests the clients of the skeleton detection service make.
MaxCalls == 3
\* Number of different image shapes (height, width).
MaxShapes == 2
\* Largest number of bytes of the serialised skeletons.
MaxBlob == 1

\* Largest height and largest width of a binary mask.
MaxDim == 3

\* Largest height and largest width of the images of a frame.
MaxImageDim == 2
\* Largest number of bytes of a compressed image.
MaxCompressedBytes == 2
\* Number of frames written to the frame stream.
MaxFrameMsgs == 2

\* --------------------------------------------------------- program constants
\* MappingClient.send_calibration_message: capacity = 1
ClientCapacity == 1
\* MappingClientHandler.run_pre: capacity = 5
HandlerCapacity == 5
\* Size in bytes of the Ack message (data model: "Ack: empty (0 bytes)").
AckSize == 0
\* Any message that carries at least one byte (Calibration, FrameHeader, Frame).
SomeBytes == 1

Frames == 1..MaxFrames
Consumers == 1..MaxConsumers
Policies == {"BLOCK", "DISCARD"}
NoSlot == 0

\* SkeletonControlMessage's values
BEGIN_DETECTION == 0
END_DETECTION == 1
SET_CALIBRATION == 2
Shapes == 1..MaxShapes
\* max_images of the frame headers (an RGB image and a depth image)
MaxImages == 2
\* people_mask_shape = None, intrinsics = None
NoShape == 0
NoIntrinsics == 0

VARIABLES
    \* ---- client application thread and MappingClient fields
    a_pc,               \* position of the application thread
    a_next,             \* index of the next frame the application sends
    a_slot,             \* slot held by send_frame_message's push handler
    a_terms,            \* number of terminate() calls made
    alive,              \* MappingClient.__alive
    calib_msg,          \* MappingClient.__calib_msg is set
    c_policy,           \* MappingClient pool_empty_strategy
    c_should_terminate, \* MappingClient.__should_terminate
    c_queue,            \* MappingClient.__frame_message_queue
    c_inits,            \* number of initialise calls on c_queue
    c_threads,          \* number of sender threads started
    c_sock,             \* operations performed on MappingClient.__sock
    snd_pc,             \* position of the sender thread
    snd_item,           \* slot of the frame message peek returned to the sender
    snd_ok,             \* connection_ok of __run_message_sender
    \* ---- the connection
    wire,               \* client-to-server stream: messages written, not yet read
    net,                \* "ok" | "reset"
    conn,               \* "none" | "pending" (in the listen backlog) | "accepted"
    \* ---- MappingServer fields and threads
    s_policy,           \* MappingServer pool_empty_strategy
    should_terminate,   \* MappingServer.__should_terminate
    lock,               \* holder of MappingServer.__lock
    client_handlers,    \* ids in MappingServer.__client_handlers
    finished_clients,   \* MappingServer.__finished_clients
    next_client_id,     \* MappingServer.__next_client_id
    acc_pc,             \* position of the server thread (__run_server)
    t_pc,               \* position of the thread calling MappingServer.terminate
    \* ---- MappingClientHandler fields and its thread (__handle_client)
    h_pc,               \* position of the handler thread
    connection_ok,      \* MappingClientHandler.__connection_ok
    h_msg,              \* frame index of the frame message read in run_iter
    h_slot,             \* slot held by run_iter's push handler
    h_lock,             \* holder of MappingClientHandler.__lock
    newest_frame_msg,   \* MappingClientHandler.__newest_frame_msg (0: None)
    h_queue,            \* MappingClientHandler.__frame_message_queue
    \* ---- consumers (threads calling MappingServer.get_frame)
    k_pc,               \* position of each consumer
    k_item,             \* what peek returned to each consumer (slot, or NoSlot)
    k_newest,           \* outcome of each consumer's last peek_newest_frame call
    \* ---- history
    written,            \* number of FrameHeaders the sender has written
    enqueued,           \* frames ever committed to the handler's queue
    refused,            \* frames for which the handler's begin_push gave no slot
    acked,              \* frames for which the handler wrote the Ack
    delivered,          \* the frames the receivers were passed, in call order
    none_passed,        \* a receiver was called with None
    popped              \* the frames get_frame removed from the handler's queue, in order

VARIABLES
    \* ---- SocketUtil on one byte stream (a writer task and a reader task)
    su_conn,            \* state of the connection
    su_stream,          \* bytes written and not yet received
    su_sent,            \* all the bytes written, in order
    su_wret,            \* what the last write_message call did
    su_rpc,             \* position of the reader in read_message
    su_size,            \* msg.get_size() of the message being read
    su_stop,            \* stop_waiting: "absent", "unset" or "set"
    su_data,            \* read_message's local buffer `data`
    su_msg,             \* the buffer of the message last read successfully
    su_ret,             \* what the last read_message call returned
    su_start,           \* number of bytes consumed when the call began
    su_consumed,        \* all the bytes received from the stream, in order
    su_timeouts         \* number of socket.timeout exceptions raised so far

VARIABLES
    \* ---- SkeletonDetectionService.run
    sk_pc,              \* position of the service thread
    sk_connection_ok,   \* run's local connection_ok
    sk_intrinsics,      \* run's local intrinsics (NoIntrinsics, or the calibration's)
    sk_skeletons,       \* run's local skeletons (NoSkeletons, or the detected ones)
    sk_people_mask,     \* run's local people_mask (NoMask, or the rendered one)
    sk_header,          \* image shape of the frame header last read
    sk_frame,           \* the frame message last read
    sk_hooks,           \* number of calls of the post-client hook
    sk_log,             \* the control messages handled, with the number of messages written
    \* ---- the connection between the service and its client
    sk_conn,            \* "none", "pending" (connected, not yet accepted) or "open"
    sk_net,             \* "ok", "closed" (by the client) or "reset"
    sk_kind,            \* "detector" (a RemoteSkeletonDetector) or "peer"
    sk_c2s,             \* messages written by the client and not yet read
    sk_s2c,             \* messages written by the service and not yet read
    \* ---- RemoteSkeletonDetector
    rd_pc,              \* position of the detector's caller
    rd_alive,           \* __alive
    rd_people_mask_shape, \* __people_mask_shape
    rd_shape,           \* end_detection's local people_mask_shape
    rd_size,            \* end_detection's data_size_msg value
    rd_skeletons,       \* end_detection's data_msg
    rd_call,            \* the method called last
    rd_ret,             \* what the last finished call returned
    rd_calls,           \* number of requests made so far
    rd_clients,         \* number of clients that have connected so far
    rd_begins_ok,       \* number of begin_detection calls that returned True
    rd_ends_written     \* number of END_DETECTION messages the detectors have written

VARIABLES
    \* ---- one BinaryMaskMessage
    bm_pc,              \* "none", "made", "set", "got" or "raised" (what was done last)
    bm_mask_shape,      \* __mask_shape: <<height, width>>
    bm_data,            \* _data: the bytes of the message
    bm_mask,            \* the mask passed to set_mask last (rows of pixels)
    bm_out              \* what get_mask returned last

VARIABLES
    \* ---- frame headers and frames on one byte stream
    fr_pc,              \* sender: "setup" or "ready"
    fr_compressor,      \* whether a frame compressor is installed
    fr_shapes,          \* the image shapes of the sender's frames
    fr_wire,            \* the messages written and not yet read, with their sizes in bytes
    fr_rpc,             \* receiver: "header" or "frame" (what it reads next)
    fr_header,          \* the frame header the receiver read last
    fr_written,         \* sizes of the frames the sender wrote, in order
    fr_read,            \* sizes of the frame messages the receiver read, in order
    fr_desync           \* the receiver read a message of a size other than the one written

VARIABLES
    \* ---- the mapping server with several client connections; a connection is
    \* ---- named by its place in the order of acceptance
    ms_should_terminate,    \* MappingServer.__should_terminate
    ms_lock,                \* holder of MappingServer.__lock: "none" or "terminate"
    ms_t_pc,                \* terminate(): "idle", "joining" or "done"
    ms_acc_pc,              \* the server thread: "select", "lock" or "exited"
    ms_connected,           \* number of connections clients have made
    ms_accepted,            \* number of connections accepted
    ms_next_client_id,      \* MappingServer.__next_client_id
    ms_client_handlers,     \* keys of MappingServer.__client_handlers
    ms_finished_clients,    \* MappingServer.__finished_clients
    ms_ids,                 \* the client ids given to the handlers, in the order of acceptance
    ms_pc,                  \* each connection's handler thread
    ms_connection_ok,       \* each handler's __connection_ok
    ms_net,                 \* each connection: "ok" or "down"
    ms_has_frames,          \* each handler: its frame queue is not empty
    ms_sock,                \* each accepted socket: "none", "open" or "closed"
    ms_late_io,             \* each handler: it read or wrote with __connection_ok cleared
    ms_entered              \* each handler: times it was added to __client_handlers

VARIABLES
    \* ---- one connected MappingClient and the public calls made on it
    mc_pc,                      \* the application: "idle", "pushing", "joining" or "terminated"
    mc_alive,                   \* __alive
    mc_calib_msg,               \* __calib_msg is set
    mc_policy,                  \* pool_empty_strategy
    mc_queue,                   \* __frame_message_queue
    mc_inits,                   \* number of initialise calls on the queue
    mc_early_use,               \* begin_push was called before any initialise
    mc_message_sender_thread,   \* __message_sender_thread: 0 (None) or a sender thread
    mc_should_terminate,        \* __should_terminate
    mc_snd_pc,                  \* each sender thread: "none", "peek", "send", "pop", "exited"
    mc_snd_item,                \* each sender thread: the slot it peeked
    mc_joined,                  \* the sender threads terminate() has joined
    mc_net,                     \* the connection: "ok" or "reset"
    mc_calibs,                  \* number of send_calibration_message calls
    mc_frames                   \* number of send_frame_message calls

clientVars == <<a_pc, a_next, a_slot, a_terms, alive, calib_msg, c_policy, c_should_terminate,
                c_queue, c_inits, c_threads, c_sock, snd_pc, snd_item, snd_ok>>
netVars == <<wire, net, conn>>
serverVars == <<s_policy, should_terminate, lock, client_handlers, finished_clients,
                next_client_id, acc_pc, t_pc>>
handlerVars == <<h_pc, connection_ok, h_msg, h_slot, h_lock, newest_frame_msg, h_queue>>
consumerVars == <<k_pc, k_item, k_newest>>
historyVars == <<written, enqueued, refused, acked, delivered, none_passed, popped>>
\* the mapping client and server
mapVars == <<clientVars, netVars, serverVars, handlerVars, consumerVars, historyVars>>
suVars == <<su_conn, su_stream, su_sent, su_wret, su_rpc, su_size, su_stop, su_data,
            su_msg, su_ret, su_start, su_consumed, su_timeouts>>
skVars == <<sk_pc, sk_connection_ok, sk_intrinsics, sk_skeletons, sk_people_mask, sk_header,
            sk_frame, sk_hooks, sk_log, sk_conn, sk_net, sk_kind, sk_c2s, sk_s2c,
            rd_pc, rd_alive, rd_people_mask_shape, rd_shape, rd_size, rd_skeletons, rd_call,
            rd_ret, rd_calls, rd_clients, rd_begins_ok, rd_ends_written>>
bmVars == <<bm_pc, bm_mask_shape, bm_data, bm_mask, bm_out>>
frVars == <<fr_pc, fr_compressor, fr_shapes, fr_wire, fr_rpc, fr_header,
            fr_written, fr_read, fr_desync>>
msVars == <<ms_should_terminate, ms_lock, ms_t_pc, ms_acc_pc, ms_connected, ms_accepted,
            ms_next_client_id, ms_client_handlers, ms_finished_clients, ms_ids, ms_pc,
            ms_connection_ok, ms_net, ms_has_frames, ms_sock, ms_late_io, ms_entered>>
mcVars == <<mc_pc, mc_alive, mc_calib_msg, mc_policy, mc_queue, mc_inits, mc_early_use,
            mc_message_sender_thread, mc_should_terminate, mc_snd_pc, mc_snd_item, mc_joined,
            mc_net, mc_calibs, mc_frames>>
\* everything but the mapping client and server
utilVars == <<suVars, skVars, bmVars, frVars, msVars, mcVars>>
vars == <<mapVars, utilVars>>
\* everything but SocketUtil's byte stream
notSu == <<mapVars, skVars, bmVars, frVars, msVars, mcVars>>
\* everything but the skeleton detection service and its client
notSk == <<mapVars, suVars, bmVars, frVars, msVars, mcVars>>
\* everything but the binary mask message
notBm == <<mapVars, suVars, skVars, frVars, msVars, mcVars>>
\* everything but the frame stream
notFr == <<mapVars, suVars, skVars, bmVars, msVars, mcVars>>
\* everything but the server with several connections
notMs == <<mapVars, suVars, skVars, bmVars, frVars, mcVars>>
\* everything but the client and the calls made on it
notMc == <<mapVars, suVars, skVars, bmVars, frVars, msVars>>
\* everything but the client's variables
notClient == <<netVars, serverVars, handlerVars, consumerVars, historyVars>>
\* everything but the server's and the handler's variables
notServer == <<clientVars, netVars, handlerVars, consumerVars, historyVars>>


\* ------------------------------------------------------------ pooled queue
\* A pooled queue: the free pool (a set of slots), the FIFO of queued slots and
\* the content of every slot (a frame index, 0 when the slot holds no frame).
NewQueue == [pool |-> {}, queue |-> <<>>, data |-> <<>>]

\* initialise(capacity, factory): capacity fresh items go to the free pool.
Initialise(q, capacity) ==
    LET n == Len(q.data)
    IN [q EXCEPT !.pool = @ \cup ((n + 1)..(n + capacity)),
                 !.data = @ \o [i \in 1..capacity |-> 0]]

MinOf(S) == CHOOSE x \in S : \A y \in S : x <= y

\* begin_push(stop): the set of possible results [q, slot]; empty when the call
\* blocks.  A free slot is granted when there is one.  With an empty pool, DISCARD
\* evicts the oldest queued item and recycles it as the write slot (no slot when
\* nothing is queued); BLOCK waits, and returns no slot once stop is set.
BeginPush(q, policy, stop) ==
    IF q.pool # {}
    THEN {[q |-> [q EXCEPT !.pool = @ \ {MinOf(q.pool)}], slot |-> MinOf(q.pool)]}
    ELSE IF policy = "DISCARD"
         THEN IF q.queue # <<>>
              THEN {[q |-> [q EXCEPT !.queue = Tail(@)], slot |-> Head(q.queue)]}
              ELSE {[q |-> q, slot |-> NoSlot]}
         ELSE IF stop THEN {[q |-> q, slot |-> NoSlot]} ELSE {}

\* The producer fills its slot and the push handle commits it to the queue tail.
FillAndCommit(q, slot, frame) ==
    [q EXCEPT !.data[slot] = frame, !.queue = Append(@, slot)]

\* peek(stop): the possible results (a slot, or NoSlot once stop is set); empty
\* when the call blocks.
Peek(q, stop) ==
    IF q.queue # <<>> THEN {Head(q.queue)}
    ELSE IF stop THEN {NoSlot} ELSE {}

\* pop(stop): the possible resulting queues; empty when the call blocks.  The head
\* is removed and its slot goes back to the pool (a free slot's content is never
\* read before the slot is filled again: it is cleared).
Pop(q, stop) ==
    IF q.queue # <<>>
    THEN {[q EXCEPT !.queue = Tail(@), !.pool = @ \cup {Head(q.queue)},
                    !.data[Head(q.queue)] = 0]}
    ELSE IF stop THEN {q} ELSE {}

Empty(q) == q.queue = <<>>

\* --------------------------------------------------------------- SocketUtil
\* SocketUtil.read_message on a stream: "ok" when msg.get_size() bytes were
\* received, "fail" when it returns False, "wait" while it keeps waiting.
\*   size        msg.get_size()
\*   avail       the message's bytes are in the stream
\*   reset       the connection was reset
\*   eof         the peer closed its end
\*   stop        stop_waiting was supplied and is set
ReadMessage(size, avail, reset, eof, stop) ==
    IF size = 0 THEN "ok"
    ELSE IF reset THEN "fail"
    ELSE IF avail THEN "ok"
    ELSE IF eof THEN "fail"
    ELSE IF stop THEN "fail"
    ELSE "wait"

\* SocketUtil.write_message: "ok" when sendall returned, "fail" when it raised a
\* connection error, "wait" while sendall is blocked on a full stream.
WriteMessage(size, room, reset) ==
    IF reset THEN "fail"
    ELSE IF size = 0 \/ room THEN "ok"
    ELSE "wait"

Room == Len(wire) < MaxWire
Reset == net = "reset"
ClientClosed == c_sock.shutdowns > 0
HeadIs(kind) == wire # <<>> /\ Head(wire)[1] = kind


\* ------------------------------------------------------------ MappingClient
Listening == acc_pc # "idle"

\* MappingClient.__init__: connects, or raises when the connection is refused.
Construct ==
    /\ a_pc = "new"
    /\ IF Listening
       THEN /\ alive' = TRUE
            /\ conn' = "pending"
            /\ a_pc' = "constructed"
       ELSE /\ a_pc' = "refused"
            /\ UNCHANGED <<alive, conn>>
    /\ UNCHANGED <<a_next, a_slot, a_terms, calib_msg, c_policy, c_should_terminate,
                   c_queue, c_inits, c_threads, c_sock, snd_pc, snd_item, snd_ok>>
    /\ UNCHANGED <<wire, net, serverVars, handlerVars, consumerVars, historyVars>>
    /\ UNCHANGED utilVars

\* send_calibration_message saving the calibration message before it knows
\* whether the message was sent and acknowledged.
SendCalibrationMessage_SaveFirst ==
    /\ a_pc = "constructed"
    /\ LET w == WriteMessage(SomeBytes, Room, Reset)
           r == ReadMessage(AckSize, FALSE, Reset, FALSE, FALSE)
       IN /\ w # "wait"
          /\ w = "ok" => r # "wait"
          /\ wire' = IF w = "ok" THEN Append(wire, <<"calib", 0>>) ELSE wire
          /\ calib_msg' = TRUE
          /\ IF w = "ok" /\ r = "ok"
             THEN /\ c_queue' = Initialise(c_queue, ClientCapacity)
                  /\ c_inits' = c_inits + 1
                  /\ c_threads' = c_threads + 1
                  /\ snd_pc' = "peek"
                  /\ a_pc' = "ready"
             ELSE /\ a_pc' = "failed"
                  /\ UNCHANGED <<c_queue, c_inits, c_threads, snd_pc>>
    /\ UNCHANGED <<a_next, a_slot, a_terms, alive, c_policy, c_should_terminate,
                   c_sock, snd_item, snd_ok>>
    /\ UNCHANGED <<net, conn, serverVars, handlerVars, consumerVars, historyVars>>
    /\ UNCHANGED utilVars

\* send_calibration_message: write the calibration, read the Ack, and on success
\* save the calibration, initialise the queue and start the sender thread.
SendCalibrationMessage ==
    /\ a_pc = "constructed"
    /\ LET w == WriteMessage(SomeBytes, Room, Reset)
           r == ReadMessage(AckSize, FALSE, Reset, FALSE, FALSE)
       IN /\ w # "wait"
          /\ w = "ok" => r # "wait"
          /\ wire' = IF w = "ok" THEN Append(wire, <<"calib", 0>>) ELSE wire
          /\ IF w = "ok" /\ r = "ok"
             THEN /\ calib_msg' = TRUE
                  /\ c_queue' = Initialise(c_queue, ClientCapacity)
                  /\ c_inits' = c_inits + 1
                  /\ c_threads' = c_threads + 1
                  /\ snd_pc' = "peek"
                  /\ a_pc' = "ready"
             ELSE /\ a_pc' = "failed"
                  /\ UNCHANGED <<calib_msg, c_queue, c_inits, c_threads, snd_pc>>
    /\ UNCHANGED <<a_next, a_slot, a_terms, alive, c_policy, c_should_terminate,
                   c_sock, snd_item, snd_ok>>
    /\ UNCHANGED <<net, conn, serverVars, handlerVars, consumerVars, historyVars>>
    /\ UNCHANGED utilVars

\* send_frame_message, first half: begin_push.
SendFrameBegin ==
    /\ a_pc = "ready"
    /\ a_next <= MaxFrames
    /\ \E res \in BeginPush(c_queue, c_policy, c_should_terminate) :
          /\ c_queue' = res.q
          /\ a_slot' = res.slot
    /\ a_pc' = "filling"
    /\ UNCHANGED <<a_next, a_terms, alive, calib_msg, c_policy, c_should_terminate,
                   c_inits, c_threads, c_sock, snd_pc, snd_item, snd_ok>>
    /\ UNCHANGED notClient
    /\ UNCHANGED utilVars

\* send_frame_message, second half: the filler fills the slot (if one was granted)
\* and the push handle commits it.
SendFrameCommit ==
    /\ a_pc = "filling"
    /\ c_queue' = IF a_slot # NoSlot THEN FillAndCommit(c_queue, a_slot, a_next)
                  ELSE c_queue
    /\ a_slot' = NoSlot
    /\ a_next' = a_next + 1
    /\ a_pc' = "ready"
    /\ UNCHANGED <<a_terms, alive, calib_msg, c_policy, c_should_terminate, c_inits,
                   c_threads, c_sock, snd_pc, snd_item, snd_ok>>
    /\ UNCHANGED notClient
    /\ UNCHANGED utilVars

SenderFinished == snd_pc \in {"none", "exited", "dead"}

\* terminate(), up to the join of the sender thread.
TerminateBegin ==
    /\ a_pc \in {"constructed", "ready", "failed", "refused", "terminated"}
    /\ a_terms < MaxTerminates
    /\ a_terms' = a_terms + 1
    /\ IF alive
       THEN /\ c_should_terminate' = TRUE
            /\ a_pc' = "joining"
       ELSE /\ a_pc' = IF a_pc = "refused" THEN "refused" ELSE "terminated"
            /\ UNCHANGED c_should_terminate
    /\ UNCHANGED <<a_next, a_slot, alive, calib_msg, c_policy, c_queue, c_inits,
                   c_threads, c_sock, snd_pc, snd_item, snd_ok>>
    /\ UNCHANGED notClient
    /\ UNCHANGED utilVars

\* terminate(), from the join on: the socket is shut down and closed.
TerminateEnd ==
    /\ a_pc = "joining"
    /\ SenderFinished
    /\ c_sock' = [shutdowns |-> c_sock.shutdowns + 1, closes |-> c_sock.closes + 1]
    /\ alive' = FALSE
    /\ a_pc' = "terminated"
    /\ UNCHANGED <<a_next, a_slot, a_terms, calib_msg, c_policy, c_should_terminate,
                   c_queue, c_inits, c_threads, snd_pc, snd_item, snd_ok>>
    /\ UNCHANGED notClient
    /\ UNCHANGED utilVars

\* The sender loop neither testing the termination flag nor passing it to peek.
SenderPeek_IgnoresStop ==
    /\ snd_pc = "peek"
    /\ IF ~snd_ok
       THEN /\ snd_pc' = "exited"
            /\ UNCHANGED snd_item
       ELSE \E item \in Peek(c_queue, FALSE) :
               /\ snd_item' = item
               /\ snd_pc' = "header"
    /\ UNCHANGED <<a_pc, a_next, a_slot, a_terms, alive, calib_msg, c_policy,
                   c_should_terminate, c_queue, c_inits, c_threads, c_sock, snd_ok>>
    /\ UNCHANGED notClient
    /\ UNCHANGED utilVars

\* __run_message_sender: the loop test, peek, and the test that follows it.
SenderPeek ==
    /\ snd_pc = "peek"
    /\ IF ~snd_ok \/ c_should_terminate
       THEN /\ snd_pc' = "exited"
            /\ UNCHANGED snd_item
       ELSE \E item \in Peek(c_queue, c_should_terminate) :
               /\ snd_item' = item
               /\ snd_pc' = "header"
    /\ UNCHANGED <<a_pc, a_next, a_slot, a_terms, alive, calib_msg, c_policy,
                   c_should_terminate, c_queue, c_inits, c_threads, c_sock, snd_ok>>
    /\ UNCHANGED notClient
    /\ UNCHANGED utilVars

\* The sender's connection failed: it sets the termination flag (and its loop
\* test then fails).
SenderFail ==
    /\ snd_ok' = FALSE
    /\ c_should_terminate' = TRUE
    /\ snd_pc' = "peek"

\* __run_message_sender: write the frame header message.
SenderWriteHeader ==
    /\ snd_pc = "header"
    /\ LET w == WriteMessage(SomeBytes, Room, Reset)
       IN /\ w # "wait"
          /\ IF w = "ok"
             THEN /\ wire' = Append(wire, <<"hdr", 0>>)
                  /\ written' = written + 1
                  /\ snd_pc' = "frame"
                  /\ UNCHANGED <<snd_ok, c_should_terminate>>
             ELSE /\ SenderFail
                  /\ UNCHANGED <<wire, written>>
    /\ UNCHANGED <<a_pc, a_next, a_slot, a_terms, alive, calib_msg, c_policy, c_queue,
                   c_inits, c_threads, c_sock, snd_item>>
    /\ UNCHANGED <<net, conn, serverVars, handlerVars, consumerVars,
                   enqueued, refused, acked, delivered, none_passed, popped>>
    /\ UNCHANGED utilVars

\* __run_message_sender: write the frame message (the slot's content as it is now).
SenderWriteFrame ==
    /\ snd_pc = "frame"
    /\ LET w == WriteMessage(SomeBytes, Room, Reset)
       IN /\ w # "wait"
          /\ IF w = "ok"
             THEN /\ wire' = Append(wire, <<"frame", c_queue.data[snd_item]>>)
                  /\ snd_pc' = "ack"
                  /\ UNCHANGED <<snd_ok, c_should_terminate>>
             ELSE /\ SenderFail
                  /\ UNCHANGED wire
    /\ UNCHANGED <<a_pc, a_next, a_slot, a_terms, alive, calib_msg, c_policy, c_queue,
                   c_inits, c_threads, c_sock, snd_item>>
    /\ UNCHANGED <<net, conn, serverVars, handlerVars, consumerVars, historyVars>>
    /\ UNCHANGED utilVars

\* __run_message_sender: read the Ack (no stop_waiting event is passed).
SenderReadAck ==
    /\ snd_pc = "ack"
    /\ LET r == ReadMessage(AckSize, FALSE, Reset, FALSE, FALSE)
       IN /\ r # "wait"
          /\ IF r = "ok"
             THEN /\ snd_pc' = "pop"
                  /\ UNCHANGED <<snd_ok, c_should_terminate>>
             ELSE SenderFail
    /\ UNCHANGED <<a_pc, a_next, a_slot, a_terms, alive, calib_msg, c_policy, c_queue,
                   c_inits, c_threads, c_sock, snd_item>>
    /\ UNCHANGED notClient
    /\ UNCHANGED utilVars

\* __run_message_sender: pop the frame message that was sent.
SenderPop ==
    /\ snd_pc = "pop"
    /\ \E q \in Pop(c_queue, c_should_terminate) : c_queue' = q
    /\ snd_item' = NoSlot
    /\ snd_pc' = "peek"
    /\ UNCHANGED <<a_pc, a_next, a_slot, a_terms, alive, calib_msg, c_policy,
                   c_should_terminate, c_inits, c_threads, c_sock, snd_ok>>
    /\ UNCHANGED notClient
    /\ UNCHANGED utilVars

\* sendall on a stream that stays full raises socket.timeout, which write_message
\* does not catch: the sender thread ends with the exception.
SenderWriteTimeout ==
    /\ snd_pc \in {"header", "frame"}
    /\ WriteMessage(SomeBytes, Room, Reset) = "wait"
    /\ snd_pc' = "dead"
    /\ UNCHANGED <<a_pc, a_next, a_slot, a_terms, alive, calib_msg, c_policy,
                   c_should_terminate, c_queue, c_inits, c_threads, c_sock,
                   snd_item, snd_ok>>
    /\ UNCHANGED notClient
    /\ UNCHANGED utilVars

\* The connection is reset.
NetReset ==
    /\ net = "ok"
    /\ conn # "none"
    /\ net' = "reset"
    /\ UNCHANGED <<wire, conn>>
    /\ UNCHANGED <<clientVars, serverVars, handlerVars, consumerVars, historyVars>>
    /\ UNCHANGED utilVars


\* ------------------------------------------------------------ MappingServer
\* start(): the server thread is started (under the server's lock).
Start ==
    /\ acc_pc = "idle"
    /\ lock = "none"
    /\ acc_pc' = "select"
    /\ UNCHANGED <<s_policy, should_terminate, lock, client_handlers, finished_clients,
                   next_client_id, t_pc>>
    /\ UNCHANGED notServer
    /\ UNCHANGED utilVars

\* __run_server: the loop test or the test after select() finds the flag set.
ServerExit ==
    /\ acc_pc = "select"
    /\ should_terminate
    /\ acc_pc' = "exited"
    /\ UNCHANGED <<s_policy, should_terminate, lock, client_handlers, finished_clients,
                   next_client_id, t_pc>>
    /\ UNCHANGED notServer
    /\ UNCHANGED utilVars

\* __run_server: select() reports the listening socket readable, the flag is not
\* set, and the connection is accepted.
ServerAccept ==
    /\ acc_pc = "select"
    /\ ~should_terminate
    /\ conn = "pending"
    /\ conn' = "accepted"
    /\ acc_pc' = "lock"
    /\ UNCHANGED <<s_policy, should_terminate, lock, client_handlers, finished_clients,
                   next_client_id, t_pc>>
    /\ UNCHANGED <<clientVars, wire, net, handlerVars, consumerVars, historyVars>>
    /\ UNCHANGED utilVars

\* __run_server: under the server's lock, the handler is constructed with the
\* next client id and its thread is started.
ServerSpawn ==
    /\ acc_pc = "lock"
    /\ lock = "none"
    /\ h_pc' = "run_pre"
    /\ next_client_id' = next_client_id + 1
    /\ acc_pc' = "select"
    /\ UNCHANGED <<s_policy, should_terminate, lock, client_handlers, finished_clients,
                   t_pc>>
    /\ UNCHANGED <<connection_ok, h_msg, h_slot, h_lock, newest_frame_msg, h_queue>>
    /\ UNCHANGED <<clientVars, netVars, consumerVars, historyVars>>
    /\ UNCHANGED utilVars

\* terminate(): takes the server's lock, sets the flag and goes on to join the
\* server thread (still holding the lock).
ServerTerminateBegin ==
    /\ t_pc = "idle"
    /\ lock = "none"
    /\ IF ~should_terminate
       THEN /\ should_terminate' = TRUE
            /\ IF acc_pc # "idle"
               THEN /\ lock' = "terminate"
                    /\ t_pc' = "joining"
               ELSE /\ t_pc' = "done"
                    /\ UNCHANGED lock
       ELSE /\ t_pc' = "done"
            /\ UNCHANGED <<should_terminate, lock>>
    /\ UNCHANGED <<s_policy, client_handlers, finished_clients, next_client_id, acc_pc>>
    /\ UNCHANGED notServer
    /\ UNCHANGED utilVars

\* terminate(): the join returns and the lock is released.
ServerTerminateEnd ==
    /\ t_pc = "joining"
    /\ acc_pc = "exited"
    /\ lock' = "none"
    /\ t_pc' = "done"
    /\ UNCHANGED <<s_policy, should_terminate, client_handlers, finished_clients,
                   next_client_id, acc_pc>>
    /\ UNCHANGED notServer
    /\ UNCHANGED utilVars

\* ----------------------------------------------------- MappingClientHandler
\* __handle_client: run_pre reads the calibration message (no stop_waiting event
\* is passed), initialises the queue and writes the Ack.
HandlerRunPre ==
    /\ h_pc = "run_pre"
    /\ LET r == ReadMessage(SomeBytes, HeadIs("calib"), Reset, ClientClosed, FALSE)
       IN /\ r # "wait"
          /\ IF r = "ok"
             THEN /\ wire' = Tail(wire)
                  /\ h_queue' = Initialise(h_queue, HandlerCapacity)
                  /\ connection_ok' = (WriteMessage(AckSize, TRUE, Reset) = "ok")
             ELSE /\ connection_ok' = FALSE
                  /\ UNCHANGED <<wire, h_queue>>
    /\ h_pc' = "publish"
    /\ UNCHANGED <<h_msg, h_slot, h_lock, newest_frame_msg>>
    /\ UNCHANGED <<clientVars, net, conn, serverVars, consumerVars, historyVars>>
    /\ UNCHANGED utilVars

\* __handle_client: the handler is added to the active clients.
HandlerPublish ==
    /\ h_pc = "publish"
    /\ lock = "none"
    /\ client_handlers' = client_handlers \cup {0}
    /\ h_pc' = "loop"
    /\ UNCHANGED <<s_policy, should_terminate, lock, finished_clients, next_client_id,
                   acc_pc, t_pc>>
    /\ UNCHANGED <<connection_ok, h_msg, h_slot, h_lock, newest_frame_msg, h_queue>>
    /\ UNCHANGED <<clientVars, netVars, consumerVars, historyVars>>
    /\ UNCHANGED utilVars

\* __handle_client: the main loop's test fails.
HandlerLoopExit ==
    /\ h_pc = "loop"
    /\ ~connection_ok \/ should_terminate
    /\ h_pc' = "drain"
    /\ UNCHANGED <<connection_ok, h_msg, h_slot, h_lock, newest_frame_msg, h_queue>>
    /\ UNCHANGED <<clientVars, netVars, serverVars, consumerVars, historyVars>>
    /\ UNCHANGED utilVars

\* run_iter: read the frame header message.
HandlerReadHeader ==
    /\ h_pc = "loop"
    /\ connection_ok
    /\ LET r == ReadMessage(SomeBytes, HeadIs("hdr"), Reset, ClientClosed,
                            should_terminate)
       IN /\ r # "wait"
          /\ IF r = "ok"
             THEN /\ wire' = Tail(wire)
                  /\ h_pc' = "frame"
                  /\ UNCHANGED connection_ok
             ELSE /\ connection_ok' = FALSE
                  /\ h_pc' = "loop"
                  /\ UNCHANGED wire
    /\ UNCHANGED <<h_msg, h_slot, h_lock, newest_frame_msg, h_queue>>
    /\ UNCHANGED <<clientVars, net, conn, serverVars, consumerVars, historyVars>>
    /\ UNCHANGED utilVars

\* run_iter: read the frame message announced by the header.
HandlerReadFrame ==
    /\ h_pc = "frame"
    /\ LET r == ReadMessage(SomeBytes, HeadIs("frame"), Reset, ClientClosed,
                            should_terminate)
       IN /\ r # "wait"
          /\ IF r = "ok"
             THEN /\ h_msg' = Head(wire)[2]
                  /\ wire' = Tail(wire)
                  /\ h_pc' = "newest"
                  /\ UNCHANGED connection_ok
             ELSE /\ connection_ok' = FALSE
                  /\ h_pc' = "loop"
                  /\ UNCHANGED <<wire, h_msg>>
    /\ UNCHANGED <<h_slot, h_lock, newest_frame_msg, h_queue>>
    /\ UNCHANGED <<clientVars, net, conn, serverVars, consumerVars, historyVars>>
    /\ UNCHANGED utilVars

\* run_iter writing the Ack as soon as the frame was read, before the push.
HandlerSetNewest_AckFirst ==
    /\ h_pc = "newest"
    /\ h_lock = 0
    /\ newest_frame_msg' = h_msg
    /\ acked' = acked \cup {h_msg}
    /\ h_pc' = "push"
    /\ UNCHANGED <<connection_ok, h_msg, h_slot, h_lock, h_queue>>
    /\ UNCHANGED <<written, enqueued, refused, delivered, none_passed, popped>>
    /\ UNCHANGED <<clientVars, netVars, serverVars, consumerVars>>
    /\ UNCHANGED utilVars

\* A receive loop that saves only the first frame as the newest one.
HandlerSetNewest_KeepsFirst ==
    /\ h_pc = "newest"
    /\ h_lock = 0
    /\ newest_frame_msg' = IF newest_frame_msg = 0 THEN h_msg ELSE newest_frame_msg
    /\ h_pc' = "push"
    /\ UNCHANGED <<connection_ok, h_msg, h_slot, h_lock, h_queue>>
    /\ UNCHANGED <<clientVars, netVars, serverVars, consumerVars, historyVars>>
    /\ UNCHANGED utilVars

\* run_iter: under the handler's lock, save the frame as the newest one.
HandlerSetNewest ==
    /\ h_pc = "newest"
    /\ h_lock = 0
    /\ newest_frame_msg' = h_msg
    /\ h_pc' = "push"
    /\ UNCHANGED <<connection_ok, h_msg, h_slot, h_lock, h_queue>>
    /\ UNCHANGED <<clientVars, netVars, serverVars, consumerVars, historyVars>>
    /\ UNCHANGED utilVars

\* run_iter pushing onto a queue that gives no slot whenever its pool is empty.
HandlerPush_DropsNewest ==
    /\ h_pc = "push"
    /\ \E res \in BeginPush(h_queue, "BLOCK", TRUE) :
          IF res.slot # NoSlot
          THEN /\ h_queue' = FillAndCommit(res.q, res.slot, h_msg)
               /\ enqueued' = enqueued \cup {h_msg}
               /\ UNCHANGED refused
          ELSE /\ h_queue' = res.q
               /\ refused' = refused \cup {h_msg}
               /\ UNCHANGED enqueued
    /\ h_pc' = "ack"
    /\ UNCHANGED <<connection_ok, h_msg, h_slot, h_lock, newest_frame_msg>>
    /\ UNCHANGED <<written, acked, delivered, none_passed, popped>>
    /\ UNCHANGED <<clientVars, netVars, serverVars, consumerVars>>
    /\ UNCHANGED utilVars

\* run_iter: push the frame onto the queue (begin_push, copy, commit).
HandlerPush ==
    /\ h_pc = "push"
    /\ \E res \in BeginPush(h_queue, s_policy, should_terminate) :
          IF res.slot # NoSlot
          THEN /\ h_queue' = FillAndCommit(res.q, res.slot, h_msg)
               /\ enqueued' = enqueued \cup {h_msg}
               /\ UNCHANGED refused
          ELSE /\ h_queue' = res.q
               /\ refused' = refused \cup {h_msg}
               /\ UNCHANGED enqueued
    /\ h_pc' = "ack"
    /\ UNCHANGED <<connection_ok, h_msg, h_slot, h_lock, newest_frame_msg>>
    /\ UNCHANGED <<written, acked, delivered, none_passed, popped>>
    /\ UNCHANGED <<clientVars, netVars, serverVars, consumerVars>>
    /\ UNCHANGED utilVars

\* run_iter: write the Ack.
HandlerWriteAck ==
    /\ h_pc = "ack"
    /\ connection_ok' = (WriteMessage(AckSize, TRUE, Reset) = "ok")
    /\ acked' = acked \cup {h_msg}
    /\ h_pc' = "loop"
    /\ UNCHANGED <<h_msg, h_slot, h_lock, newest_frame_msg, h_queue>>
    /\ UNCHANGED <<written, enqueued, refused, delivered, none_passed, popped>>
    /\ UNCHANGED <<clientVars, netVars, serverVars, consumerVars>>
    /\ UNCHANGED utilVars

\* __handle_client going on to stop the client without waiting for the queue.
HandlerDrained_NoWait ==
    /\ h_pc = "drain"
    /\ h_pc' = "final"
    /\ UNCHANGED <<connection_ok, h_msg, h_slot, h_lock, newest_frame_msg, h_queue>>
    /\ UNCHANGED <<clientVars, netVars, serverVars, consumerVars, historyVars>>
    /\ UNCHANGED utilVars

\* __handle_client: the drain loop ends: the server is terminating, or
\* has_frames_now() (which takes the handler's lock) finds the queue empty.
HandlerDrained ==
    /\ h_pc = "drain"
    /\ should_terminate \/ (h_lock = 0 /\ Empty(h_queue))
    /\ h_pc' = "final"
    /\ UNCHANGED <<connection_ok, h_msg, h_slot, h_lock, newest_frame_msg, h_queue>>
    /\ UNCHANGED <<clientVars, netVars, serverVars, consumerVars, historyVars>>
    /\ UNCHANGED utilVars

\* __handle_client: under the server's lock, the client is added to the finished
\* clients and its handler is removed.
HandlerFinalise ==
    /\ h_pc = "final"
    /\ lock = "none"
    /\ finished_clients' = finished_clients \cup {0}
    /\ client_handlers' = client_handlers \ {0}
    /\ h_pc' = "exited"
    /\ UNCHANGED <<s_policy, should_terminate, lock, next_client_id, acc_pc, t_pc>>
    /\ UNCHANGED <<connection_ok, h_msg, h_slot, h_lock, newest_frame_msg, h_queue>>
    /\ UNCHANGED <<clientVars, netVars, consumerVars, historyVars>>
    /\ UNCHANGED utilVars

\* ------------------------------------------------- MappingServer.get_frame
\* A consumer calls get_frame(0, receiver).
GetFrameCall(c) ==
    /\ k_pc[c] = "idle"
    /\ k_pc' = [k_pc EXCEPT ![c] = "start"]
    /\ UNCHANGED <<k_item, k_newest>>
    /\ UNCHANGED <<clientVars, netVars, serverVars, handlerVars, historyVars>>
    /\ UNCHANGED utilVars

\* _get_client_handler(0, wait_for_start=True): under the server's lock, wait
\* until the client is active or finished, or the server is terminating.
GetClientHandler(c) ==
    /\ k_pc[c] = "start"
    /\ lock = "none"
    /\ \/ /\ 0 \in client_handlers
          /\ k_pc' = [k_pc EXCEPT ![c] = "lock"]
       \/ /\ 0 \notin client_handlers
          /\ 0 \in finished_clients \/ should_terminate
          /\ k_pc' = [k_pc EXCEPT ![c] = "idle"]
    /\ UNCHANGED <<k_item, k_newest>>
    /\ UNCHANGED <<clientVars, netVars, serverVars, handlerVars, historyVars>>
    /\ UNCHANGED utilVars

\* MappingClientHandler.get_frame: take the handler's lock.
GetFrameLock(c) ==
    /\ k_pc[c] = "lock"
    /\ h_lock = 0
    /\ h_lock' = c
    /\ k_pc' = [k_pc EXCEPT ![c] = "peek"]
    /\ UNCHANGED <<k_item, k_newest>>
    /\ UNCHANGED <<h_pc, connection_ok, h_msg, h_slot, newest_frame_msg, h_queue>>
    /\ UNCHANGED <<clientVars, netVars, serverVars, historyVars>>
    /\ UNCHANGED utilVars

\* MappingClientHandler.get_frame: peek.
GetFramePeek(c) ==
    /\ k_pc[c] = "peek"
    /\ \E item \in Peek(h_queue, should_terminate) :
          k_item' = [k_item EXCEPT ![c] = item]
    /\ k_pc' = [k_pc EXCEPT ![c] = "receive"]
    /\ UNCHANGED k_newest
    /\ UNCHANGED <<clientVars, netVars, serverVars, handlerVars, historyVars>>
    /\ UNCHANGED utilVars

\* MappingClientHandler.get_frame: the receiver is called with what peek
\* returned and reads the frame out of it.
GetFrameReceive(c) ==
    /\ k_pc[c] = "receive"
    /\ IF k_item[c] # NoSlot
       THEN /\ delivered' = Append(delivered, h_queue.data[k_item[c]])
            /\ UNCHANGED none_passed
       ELSE /\ none_passed' = TRUE
            /\ UNCHANGED delivered
    /\ k_pc' = [k_pc EXCEPT ![c] = "pop"]
    /\ UNCHANGED <<k_item, k_newest>>
    /\ UNCHANGED <<written, enqueued, refused, acked, popped>>
    /\ UNCHANGED <<clientVars, netVars, serverVars, handlerVars>>
    /\ UNCHANGED utilVars

\* get_frame popping from a queue whose pop ignores the termination flag.
GetFramePop_IgnoresStop(c) ==
    /\ k_pc[c] = "pop"
    /\ \E q \in Pop(h_queue, FALSE) : h_queue' = q
    /\ popped' = Append(popped, h_queue.data[Head(h_queue.queue)])
    /\ h_lock' = 0
    /\ k_pc' = [k_pc EXCEPT ![c] = "idle"]
    /\ k_item' = [k_item EXCEPT ![c] = NoSlot]
    /\ UNCHANGED k_newest
    /\ UNCHANGED <<h_pc, connection_ok, h_msg, h_slot, newest_frame_msg>>
    /\ UNCHANGED <<written, enqueued, refused, acked, delivered, none_passed>>
    /\ UNCHANGED <<clientVars, netVars, serverVars>>
    /\ UNCHANGED utilVars

\* MappingClientHandler.get_frame: pop, and release the handler's lock.
GetFramePop(c) ==
    /\ k_pc[c] = "pop"
    /\ \E q \in Pop(h_queue, should_terminate) : h_queue' = q
    /\ popped' = IF Empty(h_queue) THEN popped
                 ELSE Append(popped, h_queue.data[Head(h_queue.queue)])
    /\ h_lock' = 0
    /\ k_pc' = [k_pc EXCEPT ![c] = "idle"]
    /\ k_item' = [k_item EXCEPT ![c] = NoSlot]
    /\ UNCHANGED k_newest
    /\ UNCHANGED <<h_pc, connection_ok, h_msg, h_slot, newest_frame_msg>>
    /\ UNCHANGED <<written, enqueued, refused, acked, delivered, none_passed>>
    /\ UNCHANGED <<clientVars, netVars, serverVars>>
    /\ UNCHANGED utilVars

\* ----------------------------------------- MappingServer.peek_newest_frame
\* The outcome of a consumer's last peek_newest_frame call: what it returned and
\* the frame it passed to the receiver.
NoOutcome == [called |-> FALSE, result |-> FALSE, frame |-> 0]

Outcome(result, frame) == [called |-> TRUE, result |-> result, frame |-> frame]

\* A consumer calls peek_newest_frame(0, receiver).
PeekNewestCall(c) ==
    /\ k_pc[c] = "idle"
    /\ k_pc' = [k_pc EXCEPT ![c] = "pn_start"]
    /\ k_newest' = [k_newest EXCEPT ![c] = NoOutcome]
    /\ UNCHANGED k_item
    /\ UNCHANGED <<clientVars, netVars, serverVars, handlerVars, historyVars>>
    /\ UNCHANGED utilVars

\* _get_client_handler(0, wait_for_start=True) on behalf of peek_newest_frame,
\* which returns False when there is no handler.
PeekNewestGetHandler(c) ==
    /\ k_pc[c] = "pn_start"
    /\ lock = "none"
    /\ \/ /\ 0 \in client_handlers
          /\ k_pc' = [k_pc EXCEPT ![c] = "pn_lock"]
          /\ UNCHANGED k_newest
       \/ /\ 0 \notin client_handlers
          /\ 0 \in finished_clients \/ should_terminate
          /\ k_pc' = [k_pc EXCEPT ![c] = "idle"]
          /\ k_newest' = [k_newest EXCEPT ![c] = Outcome(FALSE, 0)]
    /\ UNCHANGED k_item
    /\ UNCHANGED <<clientVars, netVars, serverVars, handlerVars, historyVars>>
    /\ UNCHANGED utilVars

\* MappingClientHandler.peek_newest_frame reading the oldest frame of the queue and
\* removing it.
PeekNewestFrame_Dequeues(c) ==
    /\ k_pc[c] = "pn_lock"
    /\ h_lock = 0
    /\ IF ~Empty(h_queue)
       THEN /\ k_newest' = [k_newest EXCEPT
                              ![c] = Outcome(TRUE, h_queue.data[Head(h_queue.queue)])]
            /\ \E q \in Pop(h_queue, should_terminate) : h_queue' = q
       ELSE /\ k_newest' = [k_newest EXCEPT ![c] = Outcome(FALSE, 0)]
            /\ UNCHANGED h_queue
    /\ k_pc' = [k_pc EXCEPT ![c] = "idle"]
    /\ UNCHANGED k_item
    /\ UNCHANGED <<h_pc, connection_ok, h_msg, h_slot, h_lock, newest_frame_msg>>
    /\ UNCHANGED <<clientVars, netVars, serverVars, historyVars>>
    /\ UNCHANGED utilVars

\* MappingClientHandler.peek_newest_frame: under the handler's lock, the newest
\* frame (if any) is passed to the receiver.
PeekNewestFrame(c) ==
    /\ k_pc[c] = "pn_lock"
    /\ h_lock = 0
    /\ k_newest' = [k_newest EXCEPT
                      ![c] = IF newest_frame_msg # 0
                             THEN Outcome(TRUE, newest_frame_msg)
                             ELSE Outcome(FALSE, 0)]
    /\ k_pc' = [k_pc EXCEPT ![c] = "idle"]
    /\ UNCHANGED k_item
    /\ UNCHANGED <<clientVars, netVars, serverVars, handlerVars, historyVars>>
    /\ UNCHANGED utilVars

\* -------------------------------------------- SocketUtil on a byte stream
\* One connection seen byte by byte: a writer task calls write_message, a reader
\* task calls read_message.  A byte is identified by its position in what the
\* writer has sent.  su_conn is "ok", "eof" (the writer has closed its end),
\* "pipe" (the reader has closed its end), "reset" or "aborted".
SuInit ==
    /\ su_conn = "ok" /\ su_stream = <<>> /\ su_sent = <<>> /\ su_wret = "none"
    /\ su_rpc = "idle" /\ su_size = 0 /\ su_stop = "absent" /\ su_data = <<>>
    /\ su_msg = <<>> /\ su_ret = "none" /\ su_start = 0 /\ su_consumed = <<>>
    /\ su_timeouts = 0

\* The bytes of the next message of n bytes.
NextBytes(n) == [i \in 1..n |-> Len(su_sent) + i]

\* write_message(sock, msg) with a message of n bytes: sendall sends them and True
\* is returned; ConnectionAbortedError and ConnectionResetError give False; the
\* BrokenPipeError of a connection the peer has closed is not caught.
SuWriteMessage ==
    /\ su_conn # "eof"
    /\ \E n \in 0..MaxMsgSize :
          /\ Len(su_sent) + n <= MaxBytes
          /\ IF su_conn = "ok"
             THEN /\ su_stream' = su_stream \o NextBytes(n)
                  /\ su_sent' = su_sent \o NextBytes(n)
                  /\ su_wret' = "true"
             ELSE /\ su_wret' = IF su_conn \in {"reset", "aborted"} THEN "false"
                                ELSE "raised"
                  /\ UNCHANGED <<su_stream, su_sent>>
    /\ UNCHANGED <<su_conn, su_rpc, su_size, su_stop, su_data, su_msg, su_ret, su_start,
                   su_consumed, su_timeouts>>
    /\ UNCHANGED notSu

\* read_message(sock, msg, stop_waiting) is called with a message of n bytes.
SuReadBegin ==
    /\ su_rpc = "idle"
    /\ su_conn # "pipe"
    /\ \E n \in 0..MaxMsgSize, st \in {"absent", "unset", "set"} :
          /\ su_size' = n
          /\ su_stop' = st
    /\ su_data' = <<>>
    /\ su_ret' = "none"
    /\ su_start' = Len(su_consumed)
    /\ su_rpc' = "loop"
    /\ UNCHANGED <<su_conn, su_stream, su_sent, su_wret, su_msg, su_consumed, su_timeouts>>
    /\ UNCHANGED notSu

\* recv asking for as many bytes as are available, whatever the message's size.
SuRecv_Greedy ==
    /\ su_rpc = "loop"
    /\ Len(su_data) < su_size
    /\ su_conn \in {"ok", "eof"}
    /\ su_stream # <<>>
    /\ su_data' = su_data \o su_stream
    /\ su_consumed' = su_consumed \o su_stream
    /\ su_stream' = <<>>
    /\ UNCHANGED <<su_conn, su_sent, su_wret, su_rpc, su_size, su_stop, su_msg, su_ret,
                   su_start, su_timeouts>>
    /\ UNCHANGED notSu

\* read_message: recv(msg.get_size() - len(data)) returns some of the bytes that
\* are available, at most as many as were asked for; they are appended to data.
SuRecv ==
    /\ su_rpc = "loop"
    /\ Len(su_data) < su_size
    /\ su_conn \in {"ok", "eof"}
    /\ \E k \in 1..(su_size - Len(su_data)) :
          /\ k <= Len(su_stream)
          /\ su_data' = su_data \o SubSeq(su_stream, 1, k)
          /\ su_consumed' = su_consumed \o SubSeq(su_stream, 1, k)
          /\ su_stream' = SubSeq(su_stream, k + 1, Len(su_stream))
    /\ UNCHANGED <<su_conn, su_sent, su_wret, su_rpc, su_size, su_stop, su_msg, su_ret,
                   su_start, su_timeouts>>
    /\ UNCHANGED notSu

\* read_message: recv returns no bytes (the peer has closed its end and nothing is
\* left to receive): False is returned.
SuRecvNothing ==
    /\ su_rpc = "loop"
    /\ Len(su_data) < su_size
    /\ su_conn = "eof"
    /\ su_stream = <<>>
    /\ su_ret' = "false"
    /\ su_rpc' = "idle"
    /\ UNCHANGED <<su_conn, su_stream, su_sent, su_wret, su_size, su_stop, su_data, su_msg,
                   su_start, su_consumed, su_timeouts>>
    /\ UNCHANGED notSu

\* read_message: recv raises ConnectionResetError or ConnectionAbortedError: False
\* is returned.
SuRecvError ==
    /\ su_rpc = "loop"
    /\ Len(su_data) < su_size
    /\ su_conn \in {"reset", "aborted"}
    /\ su_ret' = "false"
    /\ su_rpc' = "idle"
    /\ UNCHANGED <<su_conn, su_stream, su_sent, su_wret, su_size, su_stop, su_data, su_msg,
                   su_start, su_consumed, su_timeouts>>
    /\ UNCHANGED notSu

\* A socket.timeout making read_message return False whether or not it should
\* stop waiting.
SuRecvTimeout_GivesUp ==
    /\ su_rpc = "loop"
    /\ Len(su_data) < su_size
    /\ su_conn = "ok"
    /\ su_stream = <<>>
    /\ su_timeouts < MaxTimeouts
    /\ su_timeouts' = su_timeouts + 1
    /\ su_ret' = "false"
    /\ su_rpc' = "idle"
    /\ UNCHANGED <<su_conn, su_stream, su_sent, su_wret, su_size, su_stop, su_data, su_msg,
                   su_start, su_consumed>>
    /\ UNCHANGED notSu

\* read_message: recv raises socket.timeout (nothing arrived in time): False is
\* returned if stop_waiting was supplied and is set, otherwise the loop goes round
\* for another try.
SuRecvTimeout ==
    /\ su_rpc = "loop"
    /\ Len(su_data) < su_size
    /\ su_conn = "ok"
    /\ su_stream = <<>>
    /\ su_timeouts < MaxTimeouts
    /\ su_timeouts' = su_timeouts + 1
    /\ IF su_stop = "set"
       THEN /\ su_ret' = "false"
            /\ su_rpc' = "idle"
       ELSE UNCHANGED <<su_ret, su_rpc>>
    /\ UNCHANGED <<su_conn, su_stream, su_sent, su_wret, su_size, su_stop, su_data, su_msg,
                   su_start, su_consumed>>
    /\ UNCHANGED notSu

\* A read_message that returns only after it has received something.
SuReadDone_NeedsData ==
    /\ su_rpc = "loop"
    /\ Len(su_data) >= su_size
    /\ su_data # <<>>
    /\ IF Len(su_data) = su_size
       THEN /\ su_msg' = su_data
            /\ su_ret' = "true"
       ELSE /\ su_ret' = "false"
            /\ UNCHANGED su_msg
    /\ su_rpc' = "idle"
    /\ UNCHANGED <<su_conn, su_stream, su_sent, su_wret, su_size, su_stop, su_data,
                   su_start, su_consumed, su_timeouts>>
    /\ UNCHANGED notSu

\* read_message: the expected number of bytes has been received: the buffer is
\* copied into the message and True is returned (np.copyto raises ValueError,
\* which gives False, when the sizes differ).
SuReadDone ==
    /\ su_rpc = "loop"
    /\ Len(su_data) >= su_size
    /\ IF Len(su_data) = su_size
       THEN /\ su_msg' = su_data
            /\ su_ret' = "true"
       ELSE /\ su_ret' = "false"
            /\ UNCHANGED su_msg
    /\ su_rpc' = "idle"
    /\ UNCHANGED <<su_conn, su_stream, su_sent, su_wret, su_size, su_stop, su_data,
                   su_start, su_consumed, su_timeouts>>
    /\ UNCHANGED notSu

\* Another task sets the stop_waiting event.
SuStopSet ==
    /\ su_stop = "unset"
    /\ su_stop' = "set"
    /\ UNCHANGED <<su_conn, su_stream, su_sent, su_wret, su_rpc, su_size, su_data, su_msg,
                   su_ret, su_start, su_consumed, su_timeouts>>
    /\ UNCHANGED notSu

\* The connection changes state: an end is closed, or the connection is reset or
\* aborted.
SuConnChange ==
    /\ su_conn = "ok"
    /\ \E c \in {"eof", "pipe", "reset", "aborted"} :
          /\ c = "pipe" => su_rpc = "idle"
          /\ su_conn' = c
    /\ UNCHANGED <<su_stream, su_sent, su_wret, su_rpc, su_size, su_stop, su_data, su_msg,
                   su_ret, su_start, su_consumed, su_timeouts>>
    /\ UNCHANGED notSu

SuNext ==
    \/ SuWriteMessage \/ SuReadBegin \/ SuRecv \/ SuRecvNothing \/ SuRecvError
    \/ SuRecvTimeout \/ SuReadDone \/ SuStopSet \/ SuConnChange

\* ------------------------------------- skeleton detection service and client
\* One service thread (SkeletonDetectionService.run) and one client at a time.
\* The client is a RemoteSkeletonDetector (sk_kind = "detector") or some other
\* program that writes requests to the service's socket (sk_kind = "peer").  A
\* message on a byte stream is a record: its type and up to three integers.
Msg(t, a, b, c) == [type |-> t, a |-> a, b |-> b, c |-> c]
ControlMsg(v) == Msg("control", v, 0, 0)
HeaderMsg(shape) == Msg("header", shape, 0, 0)
FrameMsg(shape, idx) == Msg("frame", shape, idx, 0)
CalibMsg(intrinsics) == Msg("calib", intrinsics, 0, 0)
IntMsg(n) == Msg("int", n, 0, 0)
DataMsg(n, idx) == Msg("data", n, idx, 0)
MaskMsg(mask) == Msg("mask", mask.shape, mask.frame, mask.intrinsics)

NoSkeletons == [frame |-> 0, len |-> 0]
NoMask == [shape |-> 0, frame |-> 0, intrinsics |-> 0]
NoResult == [call |-> "none", ok |-> FALSE, skeletons |-> NoSkeletons, mask |-> NoMask]
Result(call, ok, skeletons, mask) ==
    [call |-> call, ok |-> ok, skeletons |-> skeletons, mask |-> mask]

SkReset == sk_net = "reset"
SkClosed == sk_net = "closed"

\* What a request looks like on the wire.
BeginRequest(shape, idx) == <<ControlMsg(BEGIN_DETECTION), HeaderMsg(shape), FrameMsg(shape, idx)>>
CalibRequest(intrinsics) == <<ControlMsg(SET_CALIBRATION), CalibMsg(intrinsics)>>
\* What the service writes in reply to END_DETECTION.
EndReply(skeletons, mask) ==
    <<IntMsg(skeletons.len), DataMsg(skeletons.len, skeletons.frame), MaskMsg(mask)>>

SkInit ==
    /\ sk_pc = "accept" /\ sk_connection_ok = FALSE
    /\ sk_intrinsics = NoIntrinsics /\ sk_skeletons = NoSkeletons /\ sk_people_mask = NoMask
    /\ sk_header = NoShape /\ sk_frame = FrameMsg(NoShape, 0) /\ sk_hooks = 0
    /\ sk_conn = "none" /\ sk_net = "ok" /\ sk_kind = "detector"
    /\ sk_c2s = <<>> /\ sk_s2c = <<>> /\ sk_log = <<>>
    /\ rd_pc = "idle" /\ rd_alive = FALSE /\ rd_people_mask_shape = NoShape
    /\ rd_shape = NoShape /\ rd_size = 0 /\ rd_skeletons = NoSkeletons
    /\ rd_call = "none" /\ rd_ret = NoResult
    /\ rd_calls = 0 /\ rd_clients = 0 /\ rd_begins_ok = 0 /\ rd_ends_written = 0

\* ---- the client side
\* RemoteSkeletonDetector.__init__, or another program connecting.
RdConnect ==
    /\ sk_conn = "none"
    /\ rd_clients < MaxClients
    /\ rd_clients' = rd_clients + 1
    /\ \E kind \in {"detector", "peer"} : sk_kind' = kind
    /\ sk_conn' = "pending" /\ sk_net' = "ok"
    /\ sk_c2s' = <<>> /\ sk_s2c' = <<>>
    /\ rd_alive' = TRUE /\ rd_people_mask_shape' = NoShape
    /\ rd_pc' = "idle" /\ rd_call' = "none" /\ rd_ret' = NoResult
    /\ rd_shape' = NoShape /\ rd_size' = 0 /\ rd_skeletons' = NoSkeletons
    /\ UNCHANGED <<sk_pc, sk_connection_ok, sk_intrinsics, sk_skeletons, sk_people_mask,
                   sk_header, sk_frame, sk_hooks, sk_log, rd_calls, rd_begins_ok,
                   rd_ends_written>>
    /\ UNCHANGED notSk

RdCanCall ==
    /\ sk_kind = "detector" /\ sk_conn # "none"
    /\ rd_alive /\ rd_pc = "idle"
    /\ rd_calls < MaxCalls

\* A detector that keeps the mask shape of an earlier begin_detection.
RdBeginDetection_KeepsShape ==
    /\ RdCanCall
    /\ rd_calls' = rd_calls + 1 /\ rd_call' = "begin"
    /\ \E shape \in Shapes :
         \/ /\ WriteMessage(SomeBytes, TRUE, SkReset) = "ok"
            /\ ReadMessage(AckSize, FALSE, SkReset, SkClosed, FALSE) = "ok"
            /\ sk_c2s' = sk_c2s \o BeginRequest(shape, rd_calls + 1)
            /\ rd_people_mask_shape' =
                  IF rd_people_mask_shape = NoShape THEN shape ELSE rd_people_mask_shape
            /\ rd_begins_ok' = rd_begins_ok + 1
            /\ rd_ret' = Result("begin", TRUE, NoSkeletons, NoMask)
            /\ UNCHANGED sk_net
         \/ /\ \E k \in 0..2 :
                 /\ (WriteMessage(SomeBytes, TRUE, SkReset) = "fail") => k = 0
                 /\ sk_c2s' = sk_c2s \o SubSeq(BeginRequest(shape, rd_calls + 1), 1, k)
            /\ sk_net' = "reset"
            /\ rd_ret' = Result("begin", FALSE, NoSkeletons, NoMask)
            /\ UNCHANGED <<rd_people_mask_shape, rd_begins_ok>>
    /\ UNCHANGED <<sk_pc, sk_connection_ok, sk_intrinsics, sk_skeletons, sk_people_mask,
                   sk_header, sk_frame, sk_hooks, sk_conn, sk_kind, sk_s2c, sk_log,
                   rd_pc, rd_alive, rd_shape, rd_size, rd_skeletons, rd_clients,
                   rd_ends_written>>
    /\ UNCHANGED notSk

\* RemoteSkeletonDetector.begin_detection: three writes and the read of the Ack,
\* chained with `and`.
RdBeginDetection ==
    /\ RdCanCall
    /\ rd_calls' = rd_calls + 1 /\ rd_call' = "begin"
    /\ \E shape \in Shapes :
         \/ /\ WriteMessage(SomeBytes, TRUE, SkReset) = "ok"
            /\ ReadMessage(AckSize, FALSE, SkReset, SkClosed, FALSE) = "ok"
            /\ sk_c2s' = sk_c2s \o BeginRequest(shape, rd_calls + 1)
            /\ rd_people_mask_shape' = shape
            /\ rd_begins_ok' = rd_begins_ok + 1
            /\ rd_ret' = Result("begin", TRUE, NoSkeletons, NoMask)
            /\ UNCHANGED sk_net
         \/ /\ \E k \in 0..2 :
                 /\ (WriteMessage(SomeBytes, TRUE, SkReset) = "fail") => k = 0
                 /\ sk_c2s' = sk_c2s \o SubSeq(BeginRequest(shape, rd_calls + 1), 1, k)
            /\ sk_net' = "reset"
            /\ rd_ret' = Result("begin", FALSE, NoSkeletons, NoMask)
            /\ UNCHANGED <<rd_people_mask_shape, rd_begins_ok>>
    /\ UNCHANGED <<sk_pc, sk_connection_ok, sk_intrinsics, sk_skeletons, sk_people_mask,
                   sk_header, sk_frame, sk_hooks, sk_conn, sk_kind, sk_s2c, sk_log,
                   rd_pc, rd_alive, rd_shape, rd_size, rd_skeletons, rd_clients,
                   rd_ends_written>>
    /\ UNCHANGED notSk

\* RemoteSkeletonDetector.end_detection up to the write of the control message.
RdEndDetection_KeepsShape ==
    /\ RdCanCall
    /\ rd_calls' = rd_calls + 1 /\ rd_call' = "end"
    /\ rd_shape' = rd_people_mask_shape
    /\ UNCHANGED rd_people_mask_shape
    /\ IF rd_people_mask_shape = NoShape
       THEN /\ rd_ret' = Result("end", FALSE, NoSkeletons, NoMask)
            /\ UNCHANGED <<rd_pc, sk_c2s, sk_net, rd_ends_written>>
       ELSE \/ /\ WriteMessage(SomeBytes, TRUE, SkReset) = "ok"
               /\ sk_c2s' = Append(sk_c2s, ControlMsg(END_DETECTION))
               /\ rd_ends_written' = rd_ends_written + 1
               /\ rd_pc' = "end_size"
               /\ UNCHANGED <<rd_ret, sk_net>>
            \/ /\ sk_net' = "reset"
               /\ rd_ret' = Result("end", FALSE, NoSkeletons, NoMask)
               /\ UNCHANGED <<rd_pc, sk_c2s, rd_ends_written>>
    /\ UNCHANGED <<sk_pc, sk_connection_ok, sk_intrinsics, sk_skeletons, sk_people_mask,
                   sk_header, sk_frame, sk_hooks, sk_conn, sk_kind, sk_s2c, sk_log,
                   rd_alive, rd_size, rd_skeletons, rd_clients, rd_begins_ok>>
    /\ UNCHANGED notSk

RdEndDetection ==
    /\ RdCanCall
    /\ rd_calls' = rd_calls + 1 /\ rd_call' = "end"
    /\ rd_shape' = rd_people_mask_shape
    /\ rd_people_mask_shape' = NoShape
    /\ IF rd_people_mask_shape = NoShape
       THEN /\ rd_ret' = Result("end", FALSE, NoSkeletons, NoMask)
            /\ UNCHANGED <<rd_pc, sk_c2s, sk_net, rd_ends_written>>
       ELSE \/ /\ WriteMessage(SomeBytes, TRUE, SkReset) = "ok"
               /\ sk_c2s' = Append(sk_c2s, ControlMsg(END_DETECTION))
               /\ rd_ends_written' = rd_ends_written + 1
               /\ rd_pc' = "end_size"
               /\ UNCHANGED <<rd_ret, sk_net>>
            \/ /\ sk_net' = "reset"
               /\ rd_ret' = Result("end", FALSE, NoSkeletons, NoMask)
               /\ UNCHANGED <<rd_pc, sk_c2s, rd_ends_written>>
    /\ UNCHANGED <<sk_pc, sk_connection_ok, sk_intrinsics, sk_skeletons, sk_people_mask,
                   sk_header, sk_frame, sk_hooks, sk_conn, sk_kind, sk_s2c, sk_log,
                   rd_alive, rd_size, rd_skeletons, rd_clients, rd_begins_ok>>
    /\ UNCHANGED notSk

\* One read_message of end_detection: the size, the data, then the mask.
RdEndRead ==
    /\ rd_pc \in {"end_size", "end_data", "end_mask"}
    /\ LET r == ReadMessage(SomeBytes, sk_s2c # <<>>, SkReset, FALSE, FALSE)
           m == Head(sk_s2c)
       IN  /\ r # "wait"
           /\ IF r = "fail"
              THEN /\ rd_pc' = "idle"
                   /\ rd_ret' = Result("end", FALSE, NoSkeletons, NoMask)
                   /\ UNCHANGED <<sk_s2c, rd_size, rd_skeletons>>
              ELSE /\ sk_s2c' = Tail(sk_s2c)
                   /\ CASE rd_pc = "end_size" ->
                             /\ rd_size' = m.a
                             /\ rd_pc' = "end_data"
                             /\ UNCHANGED <<rd_ret, rd_skeletons>>
                        [] rd_pc = "end_data" ->
                             /\ rd_skeletons' = [frame |-> m.b, len |-> m.a]
                             /\ rd_pc' = "end_mask"
                             /\ UNCHANGED <<rd_ret, rd_size>>
                        [] rd_pc = "end_mask" ->
                             /\ rd_ret' = Result("end", TRUE, rd_skeletons,
                                                 [shape |-> m.a, frame |-> m.b, intrinsics |-> m.c])
                             /\ rd_pc' = "idle"
                             /\ UNCHANGED <<rd_size, rd_skeletons>>
    /\ UNCHANGED <<sk_pc, sk_connection_ok, sk_intrinsics, sk_skeletons, sk_people_mask,
                   sk_header, sk_frame, sk_hooks, sk_conn, sk_net, sk_kind, sk_c2s, sk_log,
                   rd_alive, rd_people_mask_shape, rd_shape, rd_call, rd_calls, rd_clients,
                   rd_begins_ok, rd_ends_written>>
    /\ UNCHANGED notSk

\* RemoteSkeletonDetector.set_calibration.
RdSetCalibration ==
    /\ RdCanCall
    /\ rd_calls' = rd_calls + 1 /\ rd_call' = "calib"
    /\ \/ /\ WriteMessage(SomeBytes, TRUE, SkReset) = "ok"
          /\ ReadMessage(AckSize, FALSE, SkReset, SkClosed, FALSE) = "ok"
          /\ sk_c2s' = sk_c2s \o CalibRequest(rd_calls + 1)
          /\ rd_ret' = Result("calib", TRUE, NoSkeletons, NoMask)
          /\ UNCHANGED sk_net
       \/ /\ \E k \in 0..1 :
               /\ (WriteMessage(SomeBytes, TRUE, SkReset) = "fail") => k = 0
               /\ sk_c2s' = sk_c2s \o SubSeq(CalibRequest(rd_calls + 1), 1, k)
          /\ sk_net' = "reset"
          /\ rd_ret' = Result("calib", FALSE, NoSkeletons, NoMask)
    /\ UNCHANGED <<sk_pc, sk_connection_ok, sk_intrinsics, sk_skeletons, sk_people_mask,
                   sk_header, sk_frame, sk_hooks, sk_conn, sk_kind, sk_s2c, sk_log,
                   rd_pc, rd_alive, rd_people_mask_shape, rd_shape, rd_size, rd_skeletons,
                   rd_clients, rd_begins_ok, rd_ends_written>>
    /\ UNCHANGED notSk

\* RemoteSkeletonDetector.terminate.
RdTerminate ==
    /\ sk_kind = "detector" /\ sk_conn # "none"
    /\ rd_alive /\ rd_pc = "idle"
    /\ rd_alive' = FALSE
    /\ sk_net' = IF sk_net = "ok" THEN "closed" ELSE sk_net
    /\ UNCHANGED <<sk_pc, sk_connection_ok, sk_intrinsics, sk_skeletons, sk_people_mask,
                   sk_header, sk_frame, sk_hooks, sk_conn, sk_kind, sk_c2s, sk_s2c, sk_log,
                   rd_pc, rd_people_mask_shape, rd_shape, rd_size, rd_skeletons, rd_call,
                   rd_ret, rd_calls, rd_clients, rd_begins_ok, rd_ends_written>>
    /\ UNCHANGED notSk

\* Another client program writes a request: a control message and what the
\* service reads after it.
PeerRequest ==
    /\ sk_kind = "peer" /\ sk_conn # "none" /\ sk_net = "ok"
    /\ rd_calls < MaxCalls
    /\ rd_calls' = rd_calls + 1
    /\ \E v \in BEGIN_DETECTION..SET_CALIBRATION + 1 :
         sk_c2s' = sk_c2s \o
            (CASE v = BEGIN_DETECTION -> BeginRequest(CHOOSE s \in Shapes : TRUE, rd_calls + 1)
               [] v = SET_CALIBRATION -> CalibRequest(rd_calls + 1)
               [] OTHER -> <<ControlMsg(v)>>)
    /\ UNCHANGED <<sk_pc, sk_connection_ok, sk_intrinsics, sk_skeletons, sk_people_mask,
                   sk_header, sk_frame, sk_hooks, sk_conn, sk_net, sk_kind, sk_s2c, sk_log,
                   rd_pc, rd_alive, rd_people_mask_shape, rd_shape, rd_size, rd_skeletons,
                   rd_call, rd_ret, rd_clients, rd_begins_ok, rd_ends_written>>
    /\ UNCHANGED notSk

\* The other client program closes its socket.
PeerClose ==
    /\ sk_kind = "peer" /\ sk_conn # "none" /\ sk_net = "ok"
    /\ sk_net' = "closed"
    /\ UNCHANGED <<sk_pc, sk_connection_ok, sk_intrinsics, sk_skeletons, sk_people_mask,
                   sk_header, sk_frame, sk_hooks, sk_conn, sk_kind, sk_c2s, sk_s2c, sk_log,
                   rd_pc, rd_alive, rd_people_mask_shape, rd_shape, rd_size, rd_skeletons,
                   rd_call, rd_ret, rd_calls, rd_clients, rd_begins_ok, rd_ends_written>>
    /\ UNCHANGED notSk

\* The connection is reset.
SkNetReset ==
    /\ sk_conn # "none" /\ sk_net = "ok"
    /\ sk_net' = "reset"
    /\ UNCHANGED <<sk_pc, sk_connection_ok, sk_intrinsics, sk_skeletons, sk_people_mask,
                   sk_header, sk_frame, sk_hooks, sk_conn, sk_kind, sk_c2s, sk_s2c, sk_log,
                   rd_pc, rd_alive, rd_people_mask_shape, rd_shape, rd_size, rd_skeletons,
                   rd_call, rd_ret, rd_calls, rd_clients, rd_begins_ok, rd_ends_written>>
    /\ UNCHANGED notSk

\* ---- SkeletonDetectionService.run
rdVars == <<rd_pc, rd_alive, rd_people_mask_shape, rd_shape, rd_size, rd_skeletons, rd_call,
            rd_ret, rd_calls, rd_clients, rd_begins_ok, rd_ends_written>>

\* Where the loop goes after a branch: `while connection_ok`.
SkLoop(ok) == IF ok THEN "control" ELSE "hook"

\* The read of a message by the service.
SkRead == ReadMessage(SomeBytes, sk_c2s # <<>>, SkReset, SkClosed, FALSE)

\* A service that keeps the stored result of the previous client.
SkAccept_KeepsResult ==
    /\ sk_pc = "accept" /\ sk_conn = "pending"
    /\ sk_conn' = "open"
    /\ sk_connection_ok' = TRUE
    /\ sk_intrinsics' = NoIntrinsics
    /\ sk_pc' = "control"
    /\ UNCHANGED <<sk_people_mask, sk_skeletons>>
    /\ UNCHANGED <<sk_header, sk_frame, sk_hooks, sk_net, sk_kind, sk_c2s, sk_s2c, sk_log>>
    /\ UNCHANGED rdVars
    /\ UNCHANGED notSk

\* The accept loop hands over a client; the per-client state is initialised.
SkAccept ==
    /\ sk_pc = "accept" /\ sk_conn = "pending"
    /\ sk_conn' = "open"
    /\ sk_connection_ok' = TRUE
    /\ sk_intrinsics' = NoIntrinsics
    /\ sk_people_mask' = NoMask
    /\ sk_skeletons' = NoSkeletons
    /\ sk_pc' = "control"
    /\ UNCHANGED <<sk_header, sk_frame, sk_hooks, sk_net, sk_kind, sk_c2s, sk_s2c, sk_log>>
    /\ UNCHANGED rdVars
    /\ UNCHANGED notSk

\* Read a control message and dispatch on its value.
SkReadControl ==
    /\ sk_pc = "control"
    /\ SkRead # "wait"
    /\ IF SkRead = "fail"
       THEN /\ sk_connection_ok' = FALSE
            /\ sk_pc' = "hook"
            /\ UNCHANGED sk_c2s
       ELSE /\ sk_connection_ok' = TRUE
            /\ sk_c2s' = Tail(sk_c2s)
            /\ LET value == Head(sk_c2s).a
               IN  sk_pc' = CASE value = BEGIN_DETECTION -> "header"
                              [] value = END_DETECTION -> "end"
                              [] value = SET_CALIBRATION -> "calib"
                              [] OTHER -> "control"
    /\ UNCHANGED <<sk_intrinsics, sk_skeletons, sk_people_mask, sk_header, sk_frame,
                   sk_hooks, sk_conn, sk_net, sk_kind, sk_s2c, sk_log>>
    /\ UNCHANGED rdVars
    /\ UNCHANGED notSk

\* BEGIN_DETECTION: read the frame header.
SkReadHeader ==
    /\ sk_pc = "header"
    /\ SkRead # "wait"
    /\ IF SkRead = "fail"
       THEN /\ sk_connection_ok' = FALSE
            /\ sk_pc' = "hook"
            /\ UNCHANGED <<sk_c2s, sk_header>>
       ELSE /\ sk_connection_ok' = TRUE
            /\ sk_c2s' = Tail(sk_c2s)
            /\ sk_header' = Head(sk_c2s).a
            /\ sk_pc' = "frame"
    /\ UNCHANGED <<sk_intrinsics, sk_skeletons, sk_people_mask, sk_frame,
                   sk_hooks, sk_conn, sk_net, sk_kind, sk_s2c, sk_log>>
    /\ UNCHANGED rdVars
    /\ UNCHANGED notSk

\* BEGIN_DETECTION: read the frame into a message made from the header.
SkReadFrame ==
    /\ sk_pc = "frame"
    /\ SkRead # "wait"
    /\ IF SkRead = "fail"
       THEN /\ sk_connection_ok' = FALSE
            /\ sk_pc' = "hook"
            /\ UNCHANGED <<sk_c2s, sk_frame>>
       ELSE /\ sk_connection_ok' = TRUE
            /\ sk_c2s' = Tail(sk_c2s)
            /\ sk_frame' = FrameMsg(sk_header, Head(sk_c2s).b)
            /\ sk_pc' = "ack"
    /\ UNCHANGED <<sk_intrinsics, sk_skeletons, sk_people_mask, sk_header,
                   sk_hooks, sk_conn, sk_net, sk_kind, sk_s2c, sk_log>>
    /\ UNCHANGED rdVars
    /\ UNCHANGED notSk

\* BEGIN_DETECTION: acknowledge the frame.
SkWriteAck ==
    /\ sk_pc = "ack"
    /\ sk_connection_ok' = (WriteMessage(AckSize, TRUE, SkReset) = "ok")
    /\ sk_pc' = "process"
    /\ UNCHANGED <<sk_intrinsics, sk_skeletons, sk_people_mask, sk_header, sk_frame,
                   sk_hooks, sk_conn, sk_net, sk_kind, sk_c2s, sk_s2c, sk_log>>
    /\ UNCHANGED rdVars
    /\ UNCHANGED notSk

\* A service that keeps a stored result when a later frame is processed.
SkProcess_KeepsStored ==
    /\ sk_pc = "process"
    /\ IF sk_skeletons = NoSkeletons
       THEN /\ \E n \in 1..MaxBlob : sk_skeletons' = [frame |-> sk_frame.b, len |-> n]
            /\ sk_people_mask' = [shape |-> sk_frame.a, frame |-> sk_frame.b,
                                  intrinsics |-> sk_intrinsics]
       ELSE UNCHANGED <<sk_skeletons, sk_people_mask>>
    /\ sk_log' = Append(sk_log, [value |-> BEGIN_DETECTION, wrote |-> 0])
    /\ sk_pc' = SkLoop(sk_connection_ok)
    /\ UNCHANGED <<sk_connection_ok, sk_intrinsics, sk_header, sk_frame,
                   sk_hooks, sk_conn, sk_net, sk_kind, sk_c2s, sk_s2c>>
    /\ UNCHANGED rdVars
    /\ UNCHANGED notSk

\* BEGIN_DETECTION: detect the skeletons and render the people mask.
SkProcess ==
    /\ sk_pc = "process"
    /\ \E n \in 1..MaxBlob : sk_skeletons' = [frame |-> sk_frame.b, len |-> n]
    /\ sk_people_mask' = [shape |-> sk_frame.a, frame |-> sk_frame.b, intrinsics |-> sk_intrinsics]
    /\ sk_log' = Append(sk_log, [value |-> BEGIN_DETECTION, wrote |-> 0])
    /\ sk_pc' = SkLoop(sk_connection_ok)
    /\ UNCHANGED <<sk_connection_ok, sk_intrinsics, sk_header, sk_frame,
                   sk_hooks, sk_conn, sk_net, sk_kind, sk_c2s, sk_s2c>>
    /\ UNCHANGED rdVars
    /\ UNCHANGED notSk

\* END_DETECTION with skeletons stored: three writes chained with `and`, then
\* the stored skeletons and mask are cleared.
SkEndReply_KeepsSkeletons ==
    /\ sk_pc = "end"
    /\ sk_skeletons # NoSkeletons
    /\ \E k \in 0..3 :
         /\ SkReset => k = 0
         /\ IF k = 3 THEN UNCHANGED sk_net
            ELSE IF sk_net = "ok" THEN sk_net' = "reset" ELSE UNCHANGED sk_net
         /\ sk_s2c' = sk_s2c \o SubSeq(EndReply(sk_skeletons, sk_people_mask), 1, k)
         /\ sk_connection_ok' = (k = 3)
         /\ sk_log' = Append(sk_log, [value |-> END_DETECTION, wrote |-> k])
         /\ sk_pc' = SkLoop(k = 3)
    /\ UNCHANGED <<sk_skeletons, sk_people_mask>>
    /\ UNCHANGED <<sk_intrinsics, sk_header, sk_frame, sk_hooks, sk_conn, sk_kind, sk_c2s>>
    /\ UNCHANGED rdVars
    /\ UNCHANGED notSk

SkEndReply ==
    /\ sk_pc = "end"
    /\ sk_skeletons # NoSkeletons
    /\ \E k \in 0..3 :
         /\ SkReset => k = 0
         /\ IF k = 3 THEN UNCHANGED sk_net
            ELSE IF sk_net = "ok" THEN sk_net' = "reset" ELSE UNCHANGED sk_net
         /\ sk_s2c' = sk_s2c \o SubSeq(EndReply(sk_skeletons, sk_people_mask), 1, k)
         /\ sk_connection_ok' = (k = 3)
         /\ sk_log' = Append(sk_log, [value |-> END_DETECTION, wrote |-> k])
         /\ sk_pc' = SkLoop(k = 3)
    /\ sk_skeletons' = NoSkeletons
    /\ sk_people_mask' = NoMask
    /\ UNCHANGED <<sk_intrinsics, sk_header, sk_frame, sk_hooks, sk_conn, sk_kind, sk_c2s>>
    /\ UNCHANGED rdVars
    /\ UNCHANGED notSk

\* END_DETECTION with no skeletons stored: nothing to do.
SkEndIgnore_Disconnects ==
    /\ sk_pc = "end"
    /\ sk_skeletons = NoSkeletons
    /\ sk_log' = Append(sk_log, [value |-> END_DETECTION, wrote |-> 0])
    /\ sk_connection_ok' = FALSE
    /\ sk_pc' = SkLoop(FALSE)
    /\ UNCHANGED <<sk_intrinsics, sk_skeletons, sk_people_mask, sk_header,
                   sk_frame, sk_hooks, sk_conn, sk_net, sk_kind, sk_c2s, sk_s2c>>
    /\ UNCHANGED rdVars
    /\ UNCHANGED notSk

SkEndIgnore ==
    /\ sk_pc = "end"
    /\ sk_skeletons = NoSkeletons
    /\ sk_log' = Append(sk_log, [value |-> END_DETECTION, wrote |-> 0])
    /\ sk_pc' = SkLoop(sk_connection_ok)
    /\ UNCHANGED <<sk_connection_ok, sk_intrinsics, sk_skeletons, sk_people_mask, sk_header,
                   sk_frame, sk_hooks, sk_conn, sk_net, sk_kind, sk_c2s, sk_s2c>>
    /\ UNCHANGED rdVars
    /\ UNCHANGED notSk

\* A service that drops the stored result when the calibration is set.
SkSetCalibration_ClearsResult ==
    /\ sk_pc = "calib"
    /\ SkRead # "wait"
    /\ IF SkRead = "fail"
       THEN /\ sk_connection_ok' = FALSE
            /\ sk_pc' = "hook"
            /\ UNCHANGED <<sk_c2s, sk_intrinsics, sk_log>>
       ELSE /\ sk_c2s' = Tail(sk_c2s)
            /\ sk_intrinsics' = Head(sk_c2s).a
            /\ sk_connection_ok' = (WriteMessage(AckSize, TRUE, SkReset) = "ok")
            /\ sk_log' = Append(sk_log, [value |-> SET_CALIBRATION, wrote |-> 0])
            /\ sk_pc' = SkLoop(WriteMessage(AckSize, TRUE, SkReset) = "ok")
    /\ sk_skeletons' = NoSkeletons
    /\ sk_people_mask' = NoMask
    /\ UNCHANGED <<sk_header, sk_frame, sk_hooks, sk_conn, sk_net, sk_kind, sk_s2c>>
    /\ UNCHANGED rdVars
    /\ UNCHANGED notSk

\* SET_CALIBRATION: read the calibration, store the intrinsics, acknowledge.
SkSetCalibration ==
    /\ sk_pc = "calib"
    /\ SkRead # "wait"
    /\ IF SkRead = "fail"
       THEN /\ sk_connection_ok' = FALSE
            /\ sk_pc' = "hook"
            /\ UNCHANGED <<sk_c2s, sk_intrinsics, sk_log>>
       ELSE /\ sk_c2s' = Tail(sk_c2s)
            /\ sk_intrinsics' = Head(sk_c2s).a
            /\ sk_connection_ok' = (WriteMessage(AckSize, TRUE, SkReset) = "ok")
            /\ sk_log' = Append(sk_log, [value |-> SET_CALIBRATION, wrote |-> 0])
            /\ sk_pc' = SkLoop(WriteMessage(AckSize, TRUE, SkReset) = "ok")
    /\ UNCHANGED <<sk_skeletons, sk_people_mask, sk_header, sk_frame,
                   sk_hooks, sk_conn, sk_net, sk_kind, sk_s2c>>
    /\ UNCHANGED rdVars
    /\ UNCHANGED notSk

\* The client has gone: call the hook and go back to accepting.
SkPostClientHook ==
    /\ sk_pc = "hook"
    /\ sk_hooks' = sk_hooks + 1
    /\ sk_conn' = "none"
    /\ sk_pc' = "accept"
    /\ UNCHANGED <<sk_connection_ok, sk_intrinsics, sk_skeletons, sk_people_mask, sk_header,
                   sk_frame, sk_net, sk_kind, sk_c2s, sk_s2c, sk_log>>
    /\ UNCHANGED rdVars
    /\ UNCHANGED notSk

SkClientNext ==
    \/ RdConnect \/ RdBeginDetection \/ RdEndDetection \/ RdEndRead
    \/ RdSetCalibration \/ RdTerminate \/ PeerRequest \/ PeerClose \/ SkNetReset

SkServiceNext ==
    \/ SkAccept \/ SkReadControl \/ SkReadHeader \/ SkReadFrame \/ SkWriteAck
    \/ SkProcess \/ SkEndReply \/ SkEndIgnore \/ SkSetCalibration \/ SkPostClientHook

SkNext == SkClientNext \/ SkServiceNext

\* ---------------------------------------------------------- BinaryMaskMessage
\* A mask is a sequence of rows, a row a sequence of pixels (uint8).
Dims == 1..MaxDim
Product(shape) == shape[1] * shape[2]
ShapeOf(mask) == <<Len(mask), Len(mask[1])>>
Zeros(n) == [i \in 1..n |-> 0]
Pow2(n) == 2^n

\* The masks of a shape whose pixels are 0 or v.
MasksOf(shape, v) == [1..shape[1] -> [1..shape[2] -> {0, v}]]

\* numpy's flattening of an array in row-major order, and its inverse.
Flatten(mask) ==
    LET w == Len(mask[1])
    IN  [p \in 1..(Len(mask) * w) |-> mask[((p - 1) \div w) + 1][((p - 1) % w) + 1]]
Reshape(flat, shape) ==
    [i \in 1..shape[1] |-> [j \in 1..shape[2] |-> flat[(i - 1) * shape[2] + j]]]

\* np.packbits: eight elements to a byte, a non-zero element is a 1 bit, the first
\* element is the most significant bit, the last byte is padded with zeros.
BitAt(flat, p) == IF p <= Len(flat) /\ flat[p] # 0 THEN 1 ELSE 0
PackBits_LsbFirst(flat) ==
    [k \in 1..((Len(flat) + 7) \div 8) |->
        BitAt(flat, 8 * k - 7) + 2 * BitAt(flat, 8 * k - 6)
        + 4 * BitAt(flat, 8 * k - 5) + 8 * BitAt(flat, 8 * k - 4)
        + 16 * BitAt(flat, 8 * k - 3) + 32 * BitAt(flat, 8 * k - 2)
        + 64 * BitAt(flat, 8 * k - 1) + 128 * BitAt(flat, 8 * k)]

PackBits(flat) ==
    [k \in 1..((Len(flat) + 7) \div 8) |->
        128 * BitAt(flat, 8 * k - 7) + 64 * BitAt(flat, 8 * k - 6)
        + 32 * BitAt(flat, 8 * k - 5) + 16 * BitAt(flat, 8 * k - 4)
        + 8 * BitAt(flat, 8 * k - 3) + 4 * BitAt(flat, 8 * k - 2)
        + 2 * BitAt(flat, 8 * k - 1) + BitAt(flat, 8 * k)]

\* np.unpackbits(data, count=count): the first count bits, most significant first.
UnpackBits(data, count) ==
    [p \in 1..count |-> (data[((p - 1) \div 8) + 1] \div Pow2(7 - ((p - 1) % 8))) % 2]

\* (bits * 255).astype(np.uint8)
Times255(bits) == [p \in 1..Len(bits) |-> (bits[p] * 255) % 256]

BmInit ==
    /\ bm_pc = "none" /\ bm_mask_shape = <<1, 1>> /\ bm_data = <<>>
    /\ bm_mask = <<>> /\ bm_out = <<>>

\* BinaryMaskMessage.__init__
BmConstruct ==
    /\ bm_pc = "none"
    /\ \E h \in Dims, w \in Dims :
         /\ bm_mask_shape' = <<h, w>>
         /\ bm_data' = Zeros((Product(<<h, w>>) + 7) \div 8)
    /\ bm_pc' = "made"
    /\ UNCHANGED <<bm_mask, bm_out>>
    /\ UNCHANGED notBm

\* BinaryMaskMessage.set_mask with a mask of the message's shape (the sender of a
\* mask makes a message and sets its mask once).
BmSetMask ==
    /\ bm_pc \in {"made", "raised"}
    /\ \E v \in {1, 255} : \E mask \in MasksOf(bm_mask_shape, v) :
         /\ ShapeOf(mask) = bm_mask_shape
         /\ bm_mask' = mask
         /\ bm_data' = PackBits(Flatten(mask))
    /\ bm_pc' = "set"
    /\ UNCHANGED <<bm_mask_shape, bm_out>>
    /\ UNCHANGED notBm

\* BinaryMaskMessage.set_mask with a mask of another shape: RuntimeError.
BmSetMaskWrongShape ==
    /\ bm_pc = "made"
    /\ \E h \in Dims, w \in Dims :
         /\ <<h, w>> # bm_mask_shape
         /\ ShapeOf(Reshape(Zeros(h * w), <<h, w>>)) # bm_mask_shape
    /\ bm_pc' = "raised"
    /\ UNCHANGED <<bm_mask_shape, bm_data, bm_mask, bm_out>>
    /\ UNCHANGED notBm

\* BinaryMaskMessage.get_mask
BmGetMask ==
    /\ bm_pc \in {"made", "set", "raised"}
    /\ bm_out' = Reshape(Times255(UnpackBits(bm_data, Product(bm_mask_shape))), bm_mask_shape)
    /\ bm_pc' = "got"
    /\ UNCHANGED <<bm_mask_shape, bm_data, bm_mask>>
    /\ UNCHANGED notBm

BmNext == BmConstruct \/ BmSetMask \/ BmSetMaskWrongShape \/ BmGetMask

\* ------------------------------------------------ FrameHeader and FrameMessage
\* The sizes in bytes of the messages of a frame, and the way the receiver sizes
\* its frame message from the header it has read.
SumSeq(q) == IF Len(q) = 0 THEN 0 ELSE IF Len(q) = 1 THEN q[1] ELSE q[1] + q[2]

\* struct.calcsize of "<i", "<d" and "<ffffffffffffffff"
IndexBytes == 4
TimestampBytes == 8
PoseBytes == 64

\* Message._end_of(images_segment): the size of a FrameMessage.
FrameSize_OnePose(image_shapes, image_byte_sizes) ==
    IndexBytes + TimestampBytes + PoseBytes + SumSeq(image_byte_sizes)

FrameSize(image_shapes, image_byte_sizes) ==
    IndexBytes + TimestampBytes + PoseBytes * Len(image_shapes) + SumSeq(image_byte_sizes)

\* The size of a FrameHeaderMessage: for each slot a shape (three i32) and a byte
\* size (i32).
HeaderSize(max_images) == max_images * (3 * IndexBytes + IndexBytes)

\* The shapes of an RGB image and of a depth image of h x w pixels, and the byte
\* sizes of the uncompressed images (elements of one and of two bytes).
RGBDShapes(h, w) == <<(<<h, w, 3>>), (<<h, w, 1>>)>>
UncompressedSizes(shapes) ==
    <<shapes[1][1] * shapes[1][2] * shapes[1][3] * 1,
      shapes[2][1] * shapes[2][2] * shapes[2][3] * 2>>

\* The header made for a frame: set_image_byte_sizes and set_image_shapes.
HeaderFor(max_images, image_shapes, image_byte_sizes) ==
    [kind |-> "header", size |-> HeaderSize(max_images),
     shapes |-> SubSeq(image_shapes, 1, max_images),
     sizes |-> SubSeq(image_byte_sizes, 1, max_images)]

FrameFor(image_shapes, image_byte_sizes) ==
    [kind |-> "frame", size |-> FrameSize(image_shapes, image_byte_sizes),
     shapes |-> image_shapes, sizes |-> image_byte_sizes]

NoHeader == [kind |-> "header", size |-> 0, shapes |-> <<>>, sizes |-> <<>>]

FrInit ==
    /\ fr_pc = "setup" /\ fr_compressor = FALSE
    /\ fr_shapes = RGBDShapes(1, 1) /\ fr_wire = <<>> /\ fr_rpc = "header"
    /\ fr_header = NoHeader /\ fr_written = <<>> /\ fr_read = <<>> /\ fr_desync = FALSE

\* The calibration (mapping), or the image passed to begin_detection (skeleton),
\* fixes the image shapes; a compressor is installed or not.
FrSetup ==
    /\ fr_pc = "setup"
    /\ \E c \in BOOLEAN, h \in 1..MaxImageDim, w \in 1..MaxImageDim :
         /\ fr_compressor' = c
         /\ fr_shapes' = RGBDShapes(h, w)
    /\ fr_pc' = "ready"
    /\ UNCHANGED <<fr_wire, fr_rpc, fr_header, fr_written, fr_read, fr_desync>>
    /\ UNCHANGED notFr

\* The sender compresses the frame if asked to, makes the header from the message
\* it is going to write, and writes the header and the frame.
FrSendFrame ==
    /\ fr_pc = "ready"
    /\ Len(fr_written) < MaxFrameMsgs
    /\ \E sizes \in IF fr_compressor
                    THEN [1..MaxImages -> 1..MaxCompressedBytes]
                    ELSE {UncompressedSizes(fr_shapes)} :
         LET compressed_frame_msg == FrameFor(fr_shapes, sizes)
             header_msg == HeaderFor(MaxImages, compressed_frame_msg.shapes,
                                     compressed_frame_msg.sizes)
         IN  /\ fr_wire' = fr_wire \o <<header_msg, compressed_frame_msg>>
             /\ fr_written' = Append(fr_written, compressed_frame_msg.size)
    /\ UNCHANGED <<fr_pc, fr_compressor, fr_shapes, fr_rpc, fr_header, fr_read,
                   fr_desync>>
    /\ UNCHANGED notFr

\* The receiver reads a header of max_images slots.
FrReadHeader ==
    /\ fr_rpc = "header" /\ ~fr_desync
    /\ fr_wire # <<>>
    /\ LET m == Head(fr_wire)
       IN  IF m.kind = "header" /\ m.size = HeaderSize(MaxImages)
           THEN /\ fr_header' = m
                /\ fr_rpc' = "frame"
                /\ UNCHANGED fr_desync
           ELSE /\ fr_desync' = TRUE
                /\ UNCHANGED <<fr_header, fr_rpc>>
    /\ fr_wire' = Tail(fr_wire)
    /\ UNCHANGED <<fr_pc, fr_compressor, fr_shapes, fr_written, fr_read>>
    /\ UNCHANGED notFr

\* The receiver makes a frame message from the header and reads it.
FrReadFrame ==
    /\ fr_rpc = "frame" /\ ~fr_desync
    /\ fr_wire # <<>>
    /\ LET image_shapes == fr_header.shapes
           image_byte_sizes == fr_header.sizes
           frame_msg == FrameFor(image_shapes, image_byte_sizes)
       IN  /\ fr_read' = Append(fr_read, frame_msg.size)
           /\ fr_desync' = (Head(fr_wire).kind # "frame" \/ Head(fr_wire).size # frame_msg.size)
    /\ fr_wire' = Tail(fr_wire)
    /\ fr_rpc' = "header"
    /\ UNCHANGED <<fr_pc, fr_compressor, fr_shapes, fr_header, fr_written>>
    /\ UNCHANGED notFr

FrNext == FrSetup \/ FrSendFrame \/ FrReadHeader \/ FrReadFrame

\* ------------------------------- MappingServer with several connections
\* The accept loop, the client ids and the two collections of client ids, with
\* up to MaxClients connections.  A handler's frame queue is kept as empty or
\* not empty.
Conns == 1..MaxClients

MsInit ==
    /\ ms_should_terminate = FALSE /\ ms_lock = "none" /\ ms_t_pc = "idle"
    /\ ms_acc_pc = "select" /\ ms_connected = 0 /\ ms_accepted = 0
    /\ ms_next_client_id = 0 /\ ms_client_handlers = {} /\ ms_finished_clients = {}
    /\ ms_ids = <<>>
    /\ ms_pc = [n \in Conns |-> "none"]
    /\ ms_connection_ok = [n \in Conns |-> TRUE]
    /\ ms_net = [n \in Conns |-> "ok"]
    /\ ms_has_frames = [n \in Conns |-> FALSE]
    /\ ms_sock = [n \in Conns |-> "none"]
    /\ ms_late_io = [n \in Conns |-> FALSE]
    /\ ms_entered = [n \in Conns |-> 0]

acceptVars == <<ms_acc_pc, ms_connected, ms_accepted, ms_next_client_id, ms_ids, ms_sock>>
stopVars == <<ms_should_terminate, ms_lock, ms_t_pc>>

\* A client connects to the server's port.
MsConnect ==
    /\ ms_connected < MaxClients
    /\ ms_connected' = ms_connected + 1
    /\ UNCHANGED <<ms_acc_pc, ms_accepted, ms_next_client_id, ms_ids, ms_sock>>
    /\ UNCHANGED <<stopVars, ms_client_handlers, ms_finished_clients, ms_pc,
                   ms_connection_ok, ms_net, ms_has_frames, ms_late_io, ms_entered>>
    /\ UNCHANGED notMs

\* A connection fails or its client closes it.
MsNetDown(n) ==
    /\ n <= ms_connected
    /\ ms_net[n] = "ok"
    /\ ms_net' = [ms_net EXCEPT ![n] = "down"]
    /\ UNCHANGED <<acceptVars, stopVars, ms_client_handlers, ms_finished_clients, ms_pc,
                   ms_connection_ok, ms_has_frames, ms_late_io, ms_entered>>
    /\ UNCHANGED notMs

\* __run_server: select, the flag test and accept.
MsAccept ==
    /\ ms_acc_pc = "select"
    /\ ~ms_should_terminate
    /\ ms_accepted < ms_connected
    /\ ms_accepted' = ms_accepted + 1
    /\ ms_sock' = [ms_sock EXCEPT ![ms_accepted + 1] = "open"]
    /\ ms_acc_pc' = "lock"
    /\ UNCHANGED <<ms_connected, ms_next_client_id, ms_ids>>
    /\ UNCHANGED <<stopVars, ms_client_handlers, ms_finished_clients, ms_pc,
                   ms_connection_ok, ms_net, ms_has_frames, ms_late_io, ms_entered>>
    /\ UNCHANGED notMs

\* __run_server starting a handler without incrementing the next client id.
MsSpawn_SameId ==
    /\ ms_acc_pc = "lock"
    /\ ms_lock = "none"
    /\ ms_ids' = Append(ms_ids, ms_next_client_id)
    /\ ms_pc' = [ms_pc EXCEPT ![ms_accepted] = "run_pre"]
    /\ ms_acc_pc' = "select"
    /\ UNCHANGED <<ms_connected, ms_accepted, ms_sock, ms_next_client_id>>
    /\ UNCHANGED <<stopVars, ms_client_handlers, ms_finished_clients,
                   ms_connection_ok, ms_net, ms_has_frames, ms_late_io, ms_entered>>
    /\ UNCHANGED notMs

\* __run_server, under the lock: the handler is constructed with the next client
\* id, its thread is started and the next client id is incremented.
MsSpawn ==
    /\ ms_acc_pc = "lock"
    /\ ms_lock = "none"
    /\ ms_ids' = Append(ms_ids, ms_next_client_id)
    /\ ms_pc' = [ms_pc EXCEPT ![ms_accepted] = "run_pre"]
    /\ ms_next_client_id' = ms_next_client_id + 1
    /\ ms_acc_pc' = "select"
    /\ UNCHANGED <<ms_connected, ms_accepted, ms_sock>>
    /\ UNCHANGED <<stopVars, ms_client_handlers, ms_finished_clients,
                   ms_connection_ok, ms_net, ms_has_frames, ms_late_io, ms_entered>>
    /\ UNCHANGED notMs

\* __run_server: the loop ends once the flag is set.
MsExit ==
    /\ ms_acc_pc = "select"
    /\ ms_should_terminate
    /\ ms_acc_pc' = "exited"
    /\ UNCHANGED <<ms_connected, ms_accepted, ms_next_client_id, ms_ids, ms_sock>>
    /\ UNCHANGED <<stopVars, ms_client_handlers, ms_finished_clients, ms_pc,
                   ms_connection_ok, ms_net, ms_has_frames, ms_late_io, ms_entered>>
    /\ UNCHANGED notMs

\* terminate(): under the lock, set the flag and go on to join the server thread.
MsTerminateBegin ==
    /\ ms_t_pc = "idle"
    /\ ms_lock = "none"
    /\ ms_should_terminate' = TRUE
    /\ ms_lock' = "terminate"
    /\ ms_t_pc' = "joining"
    /\ UNCHANGED <<acceptVars, ms_client_handlers, ms_finished_clients, ms_pc,
                   ms_connection_ok, ms_net, ms_has_frames, ms_late_io, ms_entered>>
    /\ UNCHANGED notMs

\* terminate(): the join returns and the lock is released.
MsTerminateEnd ==
    /\ ms_t_pc = "joining"
    /\ ms_acc_pc = "exited"
    /\ ms_lock' = "none"
    /\ ms_t_pc' = "done"
    /\ UNCHANGED <<acceptVars, ms_should_terminate, ms_client_handlers,
                   ms_finished_clients, ms_pc, ms_connection_ok, ms_net, ms_has_frames,
                   ms_late_io, ms_entered>>
    /\ UNCHANGED notMs

\* What read_message returns on connection n: False when the connection is down,
\* and possibly False when it is given the termination flag and the flag is set.
MsReadResults(n, stop) ==
    IF ms_net[n] = "down" THEN {FALSE}
    ELSE IF stop /\ ms_should_terminate THEN {TRUE, FALSE} ELSE {TRUE}

\* What write_message returns on connection n.
MsWriteResult(n) == ms_net[n] = "ok"

\* The handler of connection n reads or writes and assigns the result to
\* __connection_ok, then goes to `ok` or to `failed`.
MsIo(n, result, ok, failed) ==
    /\ ms_late_io' = [ms_late_io EXCEPT ![n] = @ \/ ~ms_connection_ok[n]]
    /\ ms_connection_ok' = [ms_connection_ok EXCEPT ![n] = result]
    /\ ms_pc' = [ms_pc EXCEPT ![n] = IF result THEN ok ELSE failed]
    /\ UNCHANGED <<acceptVars, stopVars, ms_client_handlers, ms_finished_clients, ms_net,
                   ms_entered>>
    /\ UNCHANGED notMs

\* run_pre: read the calibration message.
MsRunPre(n) ==
    /\ ms_pc[n] = "run_pre"
    /\ \E result \in MsReadResults(n, FALSE) : MsIo(n, result, "pre_ack", "publish")
    /\ UNCHANGED ms_has_frames

\* run_pre: the queue is initialised and the Ack is written.
MsPreAck(n) ==
    /\ ms_pc[n] = "pre_ack"
    /\ MsIo(n, MsWriteResult(n), "publish", "publish")
    /\ UNCHANGED ms_has_frames

\* __handle_client: the handler is added to the active clients.
MsPublish(n) ==
    /\ ms_pc[n] = "publish"
    /\ ms_lock = "none"
    /\ ms_client_handlers' = ms_client_handlers \cup {ms_ids[n]}
    /\ ms_entered' = [ms_entered EXCEPT ![n] = @ + 1]
    /\ ms_pc' = [ms_pc EXCEPT ![n] = "loop"]
    /\ UNCHANGED <<acceptVars, stopVars, ms_finished_clients, ms_connection_ok, ms_net,
                   ms_has_frames, ms_late_io>>
    /\ UNCHANGED notMs

\* A main loop that calls run_iter again after a failed read or write.
MsReadHeader_Retries(n) ==
    /\ ms_pc[n] = "loop"
    /\ ~ms_should_terminate
    /\ \E result \in MsReadResults(n, TRUE) : MsIo(n, result, "frame", "loop")
    /\ UNCHANGED ms_has_frames

\* __handle_client's loop test holds; run_iter reads the frame header.
MsReadHeader(n) ==
    /\ ms_pc[n] = "loop"
    /\ ms_connection_ok[n] /\ ~ms_should_terminate
    /\ \E result \in MsReadResults(n, TRUE) : MsIo(n, result, "frame", "loop")
    /\ UNCHANGED ms_has_frames

\* run_iter: read the frame.
MsReadFrame(n) ==
    /\ ms_pc[n] = "frame"
    /\ \E result \in MsReadResults(n, TRUE) : MsIo(n, result, "push", "loop")
    /\ UNCHANGED ms_has_frames

\* run_iter: the frame is pushed onto the queue.
MsPush(n) ==
    /\ ms_pc[n] = "push"
    /\ ms_has_frames' = [ms_has_frames EXCEPT ![n] = TRUE]
    /\ ms_pc' = [ms_pc EXCEPT ![n] = "ack"]
    /\ UNCHANGED <<acceptVars, stopVars, ms_client_handlers, ms_finished_clients,
                   ms_connection_ok, ms_net, ms_late_io, ms_entered>>
    /\ UNCHANGED notMs

\* run_iter: write the Ack.
MsWriteAck(n) ==
    /\ ms_pc[n] = "ack"
    /\ MsIo(n, MsWriteResult(n), "loop", "loop")
    /\ UNCHANGED ms_has_frames

\* get_frame calls have popped every frame of an active client's queue.
MsGetFrames(n) ==
    /\ ms_has_frames[n]
    /\ ms_pc[n] \notin {"none", "run_pre", "pre_ack", "publish", "exited"}
    /\ ms_has_frames' = [ms_has_frames EXCEPT ![n] = FALSE]
    /\ UNCHANGED <<acceptVars, stopVars, ms_client_handlers, ms_finished_clients, ms_pc,
                   ms_connection_ok, ms_net, ms_late_io, ms_entered>>
    /\ UNCHANGED notMs

\* __handle_client: the main loop's test fails.
MsLoopExit(n) ==
    /\ ms_pc[n] = "loop"
    /\ ~(ms_connection_ok[n] /\ ~ms_should_terminate)
    /\ ms_pc' = [ms_pc EXCEPT ![n] = "drain"]
    /\ UNCHANGED <<acceptVars, stopVars, ms_client_handlers, ms_finished_clients,
                   ms_connection_ok, ms_net, ms_has_frames, ms_late_io, ms_entered>>
    /\ UNCHANGED notMs

\* __handle_client: the queue has drained or the server is terminating.
MsDrained(n) ==
    /\ ms_pc[n] = "drain"
    /\ ms_should_terminate \/ ~ms_has_frames[n]
    /\ ms_pc' = [ms_pc EXCEPT ![n] = "final"]
    /\ UNCHANGED <<acceptVars, stopVars, ms_client_handlers, ms_finished_clients,
                   ms_connection_ok, ms_net, ms_has_frames, ms_late_io, ms_entered>>
    /\ UNCHANGED notMs

\* A finalisation that leaves the handler among the active clients.
MsFinalise_KeepsHandler(n) ==
    /\ ms_pc[n] = "final"
    /\ ms_lock = "none"
    /\ ms_finished_clients' = ms_finished_clients \cup {ms_ids[n]}
    /\ ms_pc' = [ms_pc EXCEPT ![n] = "exited"]
    /\ UNCHANGED <<acceptVars, stopVars, ms_client_handlers, ms_connection_ok, ms_net,
                   ms_has_frames, ms_late_io, ms_entered>>
    /\ UNCHANGED notMs

\* __handle_client, under the lock: the client id is added to the finished
\* clients and the handler is deleted from the active clients; the thread ends.
MsFinalise(n) ==
    /\ ms_pc[n] = "final"
    /\ ms_lock = "none"
    /\ ms_finished_clients' = ms_finished_clients \cup {ms_ids[n]}
    /\ ms_client_handlers' = ms_client_handlers \ {ms_ids[n]}
    /\ ms_pc' = [ms_pc EXCEPT ![n] = "exited"]
    /\ UNCHANGED <<acceptVars, stopVars, ms_connection_ok, ms_net, ms_has_frames,
                   ms_late_io, ms_entered>>
    /\ UNCHANGED notMs

MsHandlerNext(n) ==
    \/ MsRunPre(n) \/ MsPreAck(n) \/ MsPublish(n) \/ MsReadHeader(n) \/ MsReadFrame(n)
    \/ MsPush(n) \/ MsWriteAck(n) \/ MsLoopExit(n) \/ MsDrained(n) \/ MsFinalise(n)

MsNext ==
    \/ MsConnect \/ MsAccept \/ MsSpawn \/ MsExit \/ MsTerminateBegin \/ MsTerminateEnd
    \/ \E n \in Conns : MsNetDown(n) \/ MsGetFrames(n) \/ MsHandlerNext(n)

\* ------------------------------------------ MappingClient: its public calls
\* One connected MappingClient on which the application makes its public calls
\* in any order; each successful send_calibration_message starts a thread
\* running __run_message_sender.
MaxCalibrations == 2
MaxCallFrames == 3
Senders == 1..MaxCalibrations

McInit ==
    /\ mc_pc = "idle" /\ mc_alive = TRUE /\ mc_calib_msg = FALSE
    /\ mc_policy = c_policy
    /\ mc_queue = NewQueue /\ mc_inits = 0 /\ mc_early_use = FALSE
    /\ mc_message_sender_thread = 0
    /\ mc_should_terminate = FALSE
    /\ mc_snd_pc = [t \in Senders |-> "none"]
    /\ mc_snd_item = [t \in Senders |-> NoSlot]
    /\ mc_joined = {}
    /\ mc_net = "ok" /\ mc_calibs = 0 /\ mc_frames = 0

\* The sender threads started so far.
McStarted == {t \in Senders : mc_snd_pc[t] # "none"}

\* The connection fails.
McNetReset ==
    /\ mc_net = "ok"
    /\ mc_net' = "reset"
    /\ UNCHANGED <<mc_pc, mc_alive, mc_calib_msg, mc_policy, mc_queue, mc_inits, mc_early_use,
                   mc_message_sender_thread, mc_should_terminate, mc_snd_pc, mc_snd_item,
                   mc_joined, mc_calibs, mc_frames>>
    /\ UNCHANGED notMc

\* send_calibration_message: write the calibration and read the Ack; on success
\* save the calibration, initialise the queue and start a sender thread, which
\* __message_sender_thread then refers to.
McSendCalibrationMessage ==
    /\ mc_pc = "idle" /\ mc_alive
    /\ mc_calibs < MaxCalibrations
    /\ mc_calibs' = mc_calibs + 1
    /\ LET w == WriteMessage(SomeBytes, TRUE, mc_net = "reset")
           r == ReadMessage(AckSize, FALSE, mc_net = "reset", FALSE, FALSE)
       IN IF w = "ok" /\ r = "ok"
          THEN /\ mc_calib_msg' = TRUE
               /\ mc_queue' = Initialise(mc_queue, ClientCapacity)
               /\ mc_inits' = mc_inits + 1
               /\ mc_message_sender_thread' = Cardinality(McStarted) + 1
               /\ mc_snd_pc' = [mc_snd_pc EXCEPT ![Cardinality(McStarted) + 1] = "peek"]
          ELSE UNCHANGED <<mc_calib_msg, mc_queue, mc_inits, mc_message_sender_thread,
                           mc_snd_pc>>
    /\ UNCHANGED <<mc_pc, mc_alive, mc_policy, mc_early_use, mc_should_terminate,
                   mc_snd_item, mc_joined, mc_net, mc_frames>>
    /\ UNCHANGED notMc

\* send_frame_message is called: begin_push is entered.
McSendFrameCall ==
    /\ mc_pc = "idle" /\ mc_alive
    /\ mc_frames < MaxCallFrames
    /\ mc_frames' = mc_frames + 1
    /\ mc_pc' = "pushing"
    /\ mc_early_use' = (mc_early_use \/ mc_inits = 0)
    /\ UNCHANGED <<mc_alive, mc_calib_msg, mc_policy, mc_queue, mc_inits,
                   mc_message_sender_thread, mc_should_terminate, mc_snd_pc, mc_snd_item,
                   mc_joined, mc_net, mc_calibs>>
    /\ UNCHANGED notMc

\* send_frame_message: begin_push returns; a granted slot is filled and
\* committed to the queue when the push handle goes out of scope.
McSendFramePush ==
    /\ mc_pc = "pushing"
    /\ \E res \in BeginPush(mc_queue, mc_policy, mc_should_terminate) :
          mc_queue' = IF res.slot = NoSlot THEN res.q
                      ELSE FillAndCommit(res.q, res.slot, mc_frames)
    /\ mc_pc' = "idle"
    /\ UNCHANGED <<mc_alive, mc_calib_msg, mc_policy, mc_inits, mc_early_use,
                   mc_message_sender_thread, mc_should_terminate, mc_snd_pc, mc_snd_item,
                   mc_joined, mc_net, mc_calibs, mc_frames>>
    /\ UNCHANGED notMc

\* terminate(), first half: set the termination flag, then join the thread
\* __message_sender_thread refers to.
McTerminateBegin ==
    /\ mc_pc = "idle" /\ mc_alive
    /\ mc_should_terminate' = TRUE
    /\ mc_pc' = "joining"
    /\ UNCHANGED <<mc_alive, mc_calib_msg, mc_policy, mc_queue, mc_inits, mc_early_use,
                   mc_message_sender_thread, mc_snd_pc, mc_snd_item, mc_joined, mc_net,
                   mc_calibs, mc_frames>>
    /\ UNCHANGED notMc

\* terminate(), second half: the join returns (there is none without a thread);
\* the socket is shut down and closed.
McTerminateEnd ==
    /\ mc_pc = "joining"
    /\ IF mc_message_sender_thread = 0
       THEN UNCHANGED mc_joined
       ELSE /\ mc_snd_pc[mc_message_sender_thread] = "exited"
            /\ mc_joined' = mc_joined \cup {mc_message_sender_thread}
    /\ mc_alive' = FALSE
    /\ mc_pc' = "terminated"
    /\ UNCHANGED <<mc_calib_msg, mc_policy, mc_queue, mc_inits, mc_early_use,
                   mc_message_sender_thread, mc_should_terminate, mc_snd_pc, mc_snd_item,
                   mc_net, mc_calibs, mc_frames>>
    /\ UNCHANGED notMc

\* __run_message_sender: the loop test and the peek.
McSenderPeek(t) ==
    /\ mc_snd_pc[t] = "peek"
    /\ IF mc_should_terminate
       THEN /\ mc_snd_pc' = [mc_snd_pc EXCEPT ![t] = "exited"]
            /\ UNCHANGED mc_snd_item
       ELSE /\ mc_queue.queue # <<>>
            /\ mc_snd_item' = [mc_snd_item EXCEPT ![t] = Head(mc_queue.queue)]
            /\ mc_snd_pc' = [mc_snd_pc EXCEPT ![t] = "send"]
    /\ UNCHANGED <<mc_pc, mc_alive, mc_calib_msg, mc_policy, mc_queue, mc_inits, mc_early_use,
                   mc_message_sender_thread, mc_should_terminate, mc_joined, mc_net,
                   mc_calibs, mc_frames>>
    /\ UNCHANGED notMc

\* __run_message_sender: write the header and the frame and read the Ack; on
\* failure set the termination flag, which ends the loop.
McSenderSend(t) ==
    /\ mc_snd_pc[t] = "send"
    /\ IF mc_net = "ok"
       THEN /\ mc_snd_pc' = [mc_snd_pc EXCEPT ![t] = "pop"]
            /\ UNCHANGED mc_should_terminate
       ELSE /\ mc_should_terminate' = TRUE
            /\ mc_snd_pc' = [mc_snd_pc EXCEPT ![t] = "exited"]
    /\ UNCHANGED <<mc_pc, mc_alive, mc_calib_msg, mc_policy, mc_queue, mc_inits, mc_early_use,
                   mc_message_sender_thread, mc_snd_item, mc_joined, mc_net, mc_calibs,
                   mc_frames>>
    /\ UNCHANGED notMc

\* __run_message_sender: pop the frame that was sent.
McSenderPop(t) ==
    /\ mc_snd_pc[t] = "pop"
    /\ \E q \in Pop(mc_queue, mc_should_terminate) : mc_queue' = q
    /\ mc_snd_pc' = [mc_snd_pc EXCEPT ![t] = "peek"]
    /\ mc_snd_item' = [mc_snd_item EXCEPT ![t] = NoSlot]
    /\ UNCHANGED <<mc_pc, mc_alive, mc_calib_msg, mc_policy, mc_inits, mc_early_use,
                   mc_message_sender_thread, mc_should_terminate, mc_joined, mc_net,
                   mc_calibs, mc_frames>>
    /\ UNCHANGED notMc

McNext ==
    \/ McNetReset \/ McSendCalibrationMessage \/ McSendFrameCall \/ McSendFramePush
    \/ McTerminateBegin \/ McTerminateEnd
    \/ \E t \in Senders : McSenderPeek(t) \/ McSenderSend(t) \/ McSenderPop(t)

\* ------------------------------------------------------------ specifications
InitWith(cp, sp) ==
    /\ a_pc = "new" /\ a_next = 1 /\ a_slot = NoSlot /\ a_terms = 0
    /\ alive = FALSE /\ calib_msg = FALSE /\ c_policy = cp
    /\ c_should_terminate = FALSE /\ c_queue = NewQueue /\ c_inits = 0
    /\ c_threads = 0 /\ c_sock = [shutdowns |-> 0, closes |-> 0]
    /\ snd_pc = "none" /\ snd_item = NoSlot /\ snd_ok = TRUE
    /\ wire = <<>> /\ net = "ok" /\ conn = "none"
    /\ s_policy = sp /\ should_terminate = FALSE /\ lock = "none"
    /\ client_handlers = {} /\ finished_clients = {} /\ next_client_id = 0
    /\ acc_pc = "idle" /\ t_pc = "idle"
    /\ h_pc = "none" /\ connection_ok = TRUE /\ h_msg = 0 /\ h_slot = NoSlot
    /\ h_lock = 0 /\ newest_frame_msg = 0 /\ h_queue = NewQueue
    /\ k_newest = [c \in Consumers |-> NoOutcome]
    /\ k_pc = [c \in Consumers |-> "idle"] /\ k_item = [c \in Consumers |-> NoSlot]
    /\ written = 0 /\ enqueued = {} /\ refused = {} /\ acked = {}
    /\ delivered = <<>> /\ none_passed = FALSE /\ popped = <<>>
    /\ SuInit
    /\ SkInit
    /\ BmInit
    /\ FrInit
    /\ MsInit
    /\ McInit

Init == \E cp \in Policies, sp \in Policies : InitWith(cp, sp)

SenderNext ==
    \/ SenderPeek \/ SenderWriteHeader \/ SenderWriteFrame \/ SenderReadAck
    \/ SenderPop

ClientNext ==
    \/ Construct \/ SendCalibrationMessage \/ SendFrameBegin \/ SendFrameCommit
    \/ SenderNext

ServerNext ==
    \/ Start \/ ServerAccept \/ ServerSpawn
    \/ HandlerRunPre \/ HandlerPublish \/ HandlerReadHeader \/ HandlerReadFrame
    \/ HandlerSetNewest \/ HandlerPush \/ HandlerWriteAck

GetFrameNext(c) ==
    \/ GetFrameCall(c) \/ GetClientHandler(c) \/ GetFrameLock(c)
    \/ GetFramePeek(c) \/ GetFrameReceive(c) \/ GetFramePop(c)

ConsumerNext == \E c \in Consumers : GetFrameNext(c)

PeekNewestNext(c) == PeekNewestCall(c) \/ PeekNewestGetHandler(c) \/ PeekNewestFrame(c)

\* The handler leaves its main loop, drains and stops the client.
HandlerStopNext == HandlerLoopExit \/ HandlerDrained \/ HandlerFinalise

\* The server is terminated.
ServerStopNext == ServerExit \/ ServerTerminateBegin \/ ServerTerminateEnd

\* The client is terminated; a blocked write times out.
ClientStopNext == TerminateBegin \/ TerminateEnd \/ SenderWriteTimeout

\* The data path alone: no termination, no connection failure.
DataNext == ClientNext \/ ServerNext \/ ConsumerNext

Next == DataNext \/ HandlerStopNext \/ ServerStopNext \/ ClientStopNext \/ NetReset

\* Everything, under any overflow policy on either side.
Spec == Init /\ [][Next]_vars

\* The data path with both queues blocking when their pool is empty.
SpecBlock == InitWith("BLOCK", "BLOCK") /\ [][DataNext]_vars

\* The data path under any overflow policy on either side.
SpecData == Init /\ [][DataNext]_vars

\* The data path with one consumer, under any overflow policy on either side.
SpecOverflow == Init /\ [][ClientNext \/ ServerNext \/ GetFrameNext(1)]_vars

MaxStopFrames == 2

\* The application calls send_frame_message at most MaxStopFrames times.
SendFewFrames == a_next <= MaxStopFrames /\ SendFrameBegin

\* The data path with both queues blocking and one consumer, while the client
\* and the server are terminated or the connection fails.
StopNext ==
    \/ Construct \/ SendCalibrationMessage \/ SendFewFrames \/ SendFrameCommit
    \/ SenderNext \/ ServerNext \/ GetFrameNext(1)
    \/ ClientStopNext \/ ServerStopNext \/ HandlerStopNext \/ NetReset

SpecStop == InitWith("BLOCK", "BLOCK") /\ [][StopNext]_vars

\* The threads inside a call are scheduled: the sender thread (a blocked write
\* ends with the socket's timeout) and a get_frame that holds the handler's lock.
FairSpecStop ==
    /\ SpecStop
    /\ WF_vars(SenderNext \/ SenderWriteTimeout)
    /\ WF_vars(GetFramePeek(1) \/ GetFrameReceive(1) \/ GetFramePop(1))

\* The server's accept loop with several connections, their handlers and
\* terminate().
SpecAccept == InitWith("BLOCK", "DISCARD") /\ [][MsNext]_vars

\* A blocking client streams frames and one consumer calls get_frame.
OneConsumerNext == ClientNext \/ ServerNext \/ GetFrameNext(1) \/ HandlerStopNext

\* ... while the server is terminated.
SpecServer ==
    /\ \E sp \in Policies : InitWith("BLOCK", sp)
    /\ [][OneConsumerNext \/ ServerStopNext]_vars

\* ... while the connection fails; the server is not terminated.
SpecDrain ==
    /\ \E sp \in Policies : InitWith("BLOCK", sp)
    /\ [][OneConsumerNext \/ NetReset]_vars

\* ... while the consumer also calls peek_newest_frame and the connection fails.
SpecPeek ==
    /\ \E sp \in Policies : InitWith("BLOCK", sp)
    /\ [][OneConsumerNext \/ PeekNewestNext(1) \/ NetReset]_vars

\* SocketUtil alone, on one byte stream.
SpecSocket == InitWith("BLOCK", "BLOCK") /\ [][SuNext]_vars

\* Frame headers and frames from one sender to one receiver.
SpecFrame == InitWith("BLOCK", "BLOCK") /\ [][FrNext]_vars

\* One binary mask message: set_mask and get_mask in any order.
SpecMask == InitWith("BLOCK", "BLOCK") /\ [][BmNext]_vars

\* The public calls of one connected MappingClient, in any order.
SpecCalls ==
    /\ \E cp \in Policies : InitWith(cp, "BLOCK")
    /\ [][McNext]_vars

\* The skeleton detection service and its clients.
SpecSkeleton == InitWith("BLOCK", "BLOCK") /\ [][SkNext]_vars

\* The client side under termination and connection failure: nobody calls
\* get_frame and the server is not terminated.
ClientSideNext ==
    ClientNext \/ ClientStopNext \/ NetReset \/ ServerNext \/ HandlerStopNext

SpecClient ==
    /\ \E cp \in Policies : InitWith(cp, "BLOCK")
    /\ [][ClientSideNext]_vars

\* The same, with the sender thread and the joining terminate() scheduled fairly
\* (a write blocked on a full stream ends with the socket's timeout).
FairSpecClient ==
    /\ SpecClient
    /\ WF_vars(SenderNext \/ SenderWriteTimeout)
    /\ WF_vars(TerminateEnd)

\* ------------------------------------------------------------------ claims
AllFrames == [i \in 1..MaxFrames |-> i]
IsPrefix(s, t) == Len(s) <= Len(t) /\ \A i \in 1..Len(s) : s[i] = t[i]
Range(s) == {s[i] : i \in 1..Len(s)}

\* C1: with BLOCK on both queues, a reliable connection and no shutdown, the
\* frames passed to the get_frame receivers are the frames sent, each exactly once
\* and in the order sent: always a prefix of them, and all of them once the client
\* has connected and no thread can take another step.
C1_EveryFrameDeliveredOnceInOrder ==
    /\ IsPrefix(delivered, AllFrames)
    /\ (a_pc # "refused" /\ ~ENABLED DataNext) => delivered = AllFrames


StrictlyIncreasing(s) == \A i, j \in 1..Len(s) : i < j => s[i] < s[j]

C3_AtMostOneUnacknowledged == written - Cardinality(acked) <= 1

ClientFinished == 0 \in finished_clients \/ h_pc \in {"final", "exited"}

\* C5: when the connection fails and the server is not terminating, the client
\* is not added to the finished clients nor removed from the active ones while
\* its queue holds frames; with a blocking queue every frame that was enqueued
\* has then been passed to a get_frame receiver.
C5_FinishedOnlyWhenDrained ==
    (ClientFinished /\ ~should_terminate) =>
        /\ Empty(h_queue)
        /\ s_policy = "BLOCK" => Range(delivered) = enqueued

\* The connection failed with frames still queued, and the client finished after
\* the consumer had taken them all.
C5_Witness ==
    /\ 0 \in finished_clients
    /\ 0 \notin client_handlers
    /\ net = "reset"
    /\ ~connection_ok
    /\ Len(delivered) >= 2
    /\ Range(delivered) = enqueued

\* C6: while terminate() waits for the server thread, the server thread can take
\* its next step or has exited (so that terminate() returns): it is never
\* blocked for good.
C6_TerminateNeverStuck ==
    t_pc = "joining" => ENABLED (ServerExit \/ ServerSpawn \/ ServerTerminateEnd)

C8_ShutDownExactlyOnce ==
    (a_terms > 0 /\ a_pc \in {"terminated", "refused"}) =>
        /\ c_should_terminate
        /\ c_sock = [shutdowns |-> 1, closes |-> 1]

\* C9: a send_calibration_message call that succeeds has written the calibration
\* message, caches it, initialises the queue with capacity 1 and starts the
\* sender thread; one that fails caches nothing, leaves the queue uninitialised
\* and starts no thread.
C9_SendCalibrationStep ==
    (a_pc = "constructed" /\ a_pc' \in {"ready", "failed"}) =>
        IF a_pc' = "ready"
        THEN /\ wire' = Append(wire, <<"calib", 0>>)
             /\ ~calib_msg /\ calib_msg'
             /\ c_queue' = Initialise(NewQueue, ClientCapacity)
             /\ Cardinality(c_queue'.pool) = 1
             /\ c_inits' = 1 /\ c_threads' = 1
             /\ snd_pc = "none" /\ snd_pc' = "peek"
        ELSE /\ ~calib_msg'
             /\ c_queue' = NewQueue
             /\ c_inits' = 0 /\ c_threads' = 0
             /\ snd_pc' = "none"
             /\ wire' = wire

C9_SendCalibration == [][C9_SendCalibrationStep]_vars

\* send_calibration_message failed on a reset connection.
C9_Witness ==
    /\ a_pc = "failed"
    /\ net = "reset"
    /\ ~calib_msg
    /\ c_inits = 0
    /\ snd_pc = "none"

NoDuplicates(s) == \A i, j \in 1..Len(s) : i # j => s[i] # s[j]

PeekNewestReturns(c) == k_pc[c] \in {"pn_start", "pn_lock"} /\ k_pc'[c] = "idle"

C11_AsClaimedStep ==
    \A c \in Consumers :
       PeekNewestReturns(c) =>
          /\ k_newest'[c].result = (h_msg # 0)
          /\ k_newest'[c].result => k_newest'[c].frame = h_msg
          /\ h_queue' = h_queue

\* C11, as claimed: every peek_newest_frame call returns true and passes the last
\* frame received from the client whenever a frame has been received from it,
\* returns false otherwise, and leaves the client's queue as it was.
C11_PeekNewestWheneverReceived == [][C11_AsClaimedStep]_vars

\* The frame the handler's receive loop saved last (0: none): the last frame it
\* read, or the one before it while the loop has read a frame and not saved it.
LastSaved == IF h_pc = "newest" THEN h_msg - 1 ELSE h_msg

C11_Step ==
    \A c \in Consumers :
       PeekNewestReturns(c) =>
          /\ h_queue' = h_queue
          /\ k_pc[c] = "pn_start" =>
                /\ ~k_newest'[c].result
                /\ 0 \notin client_handlers
                /\ 0 \in finished_clients \/ should_terminate
          /\ k_pc[c] = "pn_lock" =>
                /\ k_newest'[c].result = (LastSaved # 0)
                /\ k_newest'[c].result => k_newest'[c].frame = LastSaved

\* C11, amended: a peek_newest_frame call that finds the client's handler in the
\* active map returns true and passes the frame the receive loop saved last
\* whenever a frame has been saved, and false when none has; a call that finds no
\* handler (the client has finished, or the server is terminating) returns false;
\* and no call changes the client's queue.
C11_PeekNewest == [][C11_Step]_vars

\* peek_newest_frame passed the newest frame while older frames were queued, and
\* the queue is as it was.
C11_Witness ==
    /\ k_newest[1] = Outcome(TRUE, 3)
    /\ k_pc[1] = "idle"
    /\ Len(h_queue.queue) = 3
    /\ h_queue.data[Head(h_queue.queue)] = 1

C12_Bytes ==
    /\ IsPrefix(su_consumed, su_sent)
    /\ su_consumed \o su_stream = su_sent
    /\ Len(su_consumed) - su_start <= su_size
    /\ su_rpc = "loop" => su_data = SubSeq(su_consumed, su_start + 1, Len(su_consumed))
    /\ su_ret = "true" =>
          /\ Len(su_consumed) = su_start + su_size
          /\ Len(su_msg) = su_size
          /\ su_msg = SubSeq(su_sent, su_start + 1, su_start + su_size)

C12_ReturnStep ==
    (su_rpc = "loop" /\ su_rpc' = "idle") =>
        /\ su_ret' = "true" <=> Len(su_data) = su_size
        /\ su_ret' \in {"true", "false"}
        /\ (su_conn \in {"reset", "aborted"} /\ Len(su_data) < su_size) => su_ret' = "false"
        /\ su_ret' = "false" => su_msg' = su_msg

\* C12: read_message returns true only when exactly msg.size bytes have been
\* received, and the message's buffer is then those bytes, the next msg.size
\* bytes of the stream in order; a call never takes more than msg.size bytes from
\* the stream, so what has been received and what is still in the stream are
\* together what was sent; a zero-length read or a connection error before the
\* last byte makes it return false.
C12_ReadExactly == []C12_Bytes /\ [][C12_ReturnStep]_vars

\* A second message of two bytes was read right after a first one.
C12_Witness ==
    /\ su_ret = "true"
    /\ su_start = 2 /\ su_size = 2
    /\ su_msg = <<3, 4>>
    /\ su_sent = <<1, 2, 3, 4>>

C13_TimeoutStep ==
    su_timeouts' # su_timeouts =>
        IF su_stop = "set"
        THEN su_rpc' = "idle" /\ su_ret' = "false"
        ELSE su_rpc' = "loop" /\ su_ret' = "none" /\ su_data' = su_data

\* C13: a socket timeout in read_message makes the call return false exactly
\* when a stop signal was supplied and is set at that moment; otherwise the call
\* goes on waiting with the bytes it has received so far.
C13_TimeoutStopsOnlyWhenSet == [][C13_TimeoutStep]_vars

\* The call kept the byte it had across a timeout, and returned false at a later
\* timeout, when the stop signal was set.
C13_Witness ==
    /\ su_timeouts >= 2
    /\ su_conn = "ok"
    /\ su_rpc = "idle" /\ su_ret = "false"
    /\ su_stop = "set"
    /\ Len(su_data) = 1 /\ su_size = 2

\* C14: write_message returns true or false; no connection error escapes the
\* call as an exception.
C14_WriteNeverRaises == su_wret # "raised"

SkEndStep == sk_pc = "end" /\ sk_pc' # "end"

C15_ReplyStep ==
    (SkEndStep /\ sk_skeletons # NoSkeletons) =>
        /\ \E k \in 0..3 :
             /\ sk_s2c' = sk_s2c \o
                    SubSeq(<<Msg("int", sk_skeletons.len, 0, 0),
                             Msg("data", sk_skeletons.len, sk_skeletons.frame, 0),
                             Msg("mask", sk_people_mask.shape, sk_people_mask.frame,
                                 sk_people_mask.intrinsics)>>, 1, k)
             /\ sk_connection_ok' <=> k = 3
             /\ (sk_net = "ok" /\ sk_net' = "ok") => k = 3
        /\ sk_skeletons' = NoSkeletons
        /\ sk_people_mask' = NoMask

\* Every END_DETECTION that was replied to comes after a BEGIN_DETECTION that no
\* other END_DETECTION has followed.
C15_OneReplyPerBegin ==
    \A j \in 1..Len(sk_log) :
        (sk_log[j].value = END_DETECTION /\ sk_log[j].wrote > 0) =>
            \E i \in 1..(j - 1) :
                /\ sk_log[i].value = BEGIN_DETECTION
                /\ \A m \in (i + 1)..(j - 1) : sk_log[m].value # END_DETECTION

\* C15: on END_DETECTION with skeletons stored the service writes Simple<int>(n),
\* a Data message of n bytes and the BinaryMask of the stored mask, in that order
\* (all three while the connection holds), and clears the stored skeletons and
\* mask, so that an END_DETECTION is replied to only if a BEGIN_DETECTION came
\* after the END_DETECTION before it.
C15_EndRepliesOnceInOrder == []C15_OneReplyPerBegin /\ [][C15_ReplyStep]_vars

\* BEGIN, END and END again were handled: the first END was replied to with the
\* three messages, the second one with nothing.
C15_Witness ==
    /\ sk_log = <<[value |-> BEGIN_DETECTION, wrote |-> 0],
                  [value |-> END_DETECTION, wrote |-> 3],
                  [value |-> END_DETECTION, wrote |-> 0]>>
    /\ Len(sk_s2c) = 3
    /\ sk_s2c[1].type = "int" /\ sk_s2c[2].type = "data" /\ sk_s2c[3].type = "mask"
    /\ sk_s2c[2].a = sk_s2c[1].a
    /\ sk_net = "ok"

C16_IgnoreStep ==
    (SkEndStep /\ sk_skeletons = NoSkeletons) =>
        /\ sk_s2c' = sk_s2c
        /\ UNCHANGED <<sk_intrinsics, sk_skeletons, sk_people_mask, sk_connection_ok>>
        /\ sk_pc' = "control"

\* C16: on END_DETECTION with no skeletons stored the service writes nothing,
\* leaves its intrinsics, stored skeletons and mask and connection status as
\* they are, and goes on to read the next control message.
C16_EndWithoutBeginIgnored == [][C16_IgnoreStep]_vars

\* After SET_CALIBRATION an END_DETECTION was handled with nothing stored: the
\* intrinsics are still there and the service is reading the next control message.
C16_Witness ==
    /\ sk_log = <<[value |-> SET_CALIBRATION, wrote |-> 0],
                  [value |-> END_DETECTION, wrote |-> 0]>>
    /\ sk_pc = "control" /\ sk_connection_ok
    /\ sk_intrinsics # NoIntrinsics
    /\ sk_s2c = <<>>
    /\ sk_net = "ok"

RdCallStep(call) == sk_kind = "detector" /\ rd_calls' = rd_calls + 1 /\ rd_call' = call

C17_Step ==
    /\ (RdCallStep("end") /\ rd_people_mask_shape = NoShape) =>
          /\ sk_c2s' = sk_c2s
          /\ rd_ends_written' = rd_ends_written
          /\ rd_pc' = "idle"
          /\ rd_ret' = [call |-> "end", ok |-> FALSE, skeletons |-> NoSkeletons, mask |-> NoMask]
    /\ RdCallStep("end") => rd_people_mask_shape' = NoShape
    /\ RdCallStep("begin") =>
          IF rd_ret'.ok
          THEN /\ rd_people_mask_shape' \in Shapes
               /\ Len(sk_c2s') = Len(sk_c2s) + 3
               /\ sk_c2s'[Len(sk_c2s')].a = rd_people_mask_shape'
          ELSE rd_people_mask_shape' = rd_people_mask_shape
    /\ (~RdCallStep("begin") /\ ~RdCallStep("end") /\ rd_clients' = rd_clients) =>
          rd_people_mask_shape' = rd_people_mask_shape

\* C17: end_detection returns an empty result without writing when no expected
\* mask shape is recorded; only a begin_detection that returns True records the
\* shape, every end_detection forgets it, and so the detectors write at most one
\* END_DETECTION for each begin_detection that succeeded.
C17_EndNeedsBegin == [](rd_ends_written <= rd_begins_ok) /\ [][C17_Step]_vars

\* begin_detection and end_detection were answered; the next end_detection
\* returned empty and wrote nothing.
C17_Witness ==
    /\ sk_log = <<[value |-> BEGIN_DETECTION, wrote |-> 0],
                  [value |-> END_DETECTION, wrote |-> 3]>>
    /\ rd_calls = 3 /\ rd_call = "end" /\ rd_pc = "idle"
    /\ rd_ret = [call |-> "end", ok |-> FALSE, skeletons |-> NoSkeletons, mask |-> NoMask]
    /\ rd_begins_ok = 1 /\ rd_ends_written = 1
    /\ sk_c2s = <<>> /\ sk_s2c = <<>>
    /\ sk_net = "ok"

\* The pixel of the mask that bit p of the buffer stands for (rows concatenated).
C18_Pixel(p) == bm_mask[((p - 1) \div bm_mask_shape[2]) + 1][((p - 1) % bm_mask_shape[2]) + 1]
\* Bit b (0 is the most significant) of byte k of the buffer.
C18_Bit(k, b) == (bm_data[k] \div Pow2(7 - b)) % 2

\* C18: after set_mask(M) on a BinaryMask message of shape (h, w) the buffer has
\* ceil(h*w/8) bytes holding the pixels of M row after row, one bit each, most
\* significant bit first, with zero padding; get_mask() is 255 where M is not 0
\* and 0 elsewhere, which is M itself when M is a binary image of 0s and 255s.
C18_MaskRoundTrip ==
    LET n == bm_mask_shape[1] * bm_mask_shape[2]
    IN  /\ bm_pc # "none" =>
              /\ Len(bm_data) * 8 >= n
              /\ (Len(bm_data) - 1) * 8 < n
        /\ bm_mask # <<>> =>
              /\ \A p \in 1..n : C18_Bit(((p - 1) \div 8) + 1, (p - 1) % 8) = 1 <=> C18_Pixel(p) # 0
              /\ \A p \in (n + 1)..(Len(bm_data) * 8) : C18_Bit(((p - 1) \div 8) + 1, (p - 1) % 8) = 0
        /\ (bm_pc = "got" /\ bm_mask # <<>>) =>
              /\ \A i \in 1..bm_mask_shape[1] : \A j \in 1..bm_mask_shape[2] :
                    bm_out[i][j] = IF bm_mask[i][j] # 0 THEN 255 ELSE 0
              /\ (\A i \in 1..bm_mask_shape[1] : \A j \in 1..bm_mask_shape[2] :
                    bm_mask[i][j] \in {0, 255}) => bm_out = bm_mask

\* A 3 x 3 mask (nine bits, two bytes) with its first and last pixel set came back
\* from get_mask() as it was.
C18_Witness ==
    /\ bm_pc = "got"
    /\ bm_mask_shape = <<3, 3>>
    /\ bm_mask = <<(<<255, 0, 0>>), (<<0, 0, 0>>), (<<0, 0, 255>>)>>
    /\ bm_data = <<128, 128>>
    /\ bm_out = bm_mask

\* The header that announces message i of the stream: the message before it, or
\* the header the receiver has just read.
C19_HeaderOf(i) == IF i = 1 THEN fr_header ELSE fr_wire[i - 1]

\* C19: every frame on the wire has 4 + 8 + 64 * max_images + the sum of the image
\* byte sizes announced in the header before it; each frame message the receiver
\* made from a header had the size of the frame the sender wrote, and the receiver
\* never read a message of another size than the one written, with a compressor
\* and without.
C19_FrameSizeAsAnnounced ==
    /\ \A i \in 1..Len(fr_wire) :
          fr_wire[i].kind = "frame" =>
              /\ C19_HeaderOf(i).kind = "header"
              /\ Len(C19_HeaderOf(i).sizes) = MaxImages
              /\ fr_wire[i].size =
                    4 + 8 + 64 * MaxImages
                    + C19_HeaderOf(i).sizes[1] + C19_HeaderOf(i).sizes[2]
    /\ IsPrefix(fr_read, fr_written)
    /\ ~fr_desync

\* Two compressed frames of different sizes were written and read.
C19_Witness ==
    /\ fr_compressor
    /\ Len(fr_read) = 2
    /\ fr_read = fr_written
    /\ fr_read[1] # fr_read[2]
    /\ fr_wire = <<>>

\* The slots of a pooled queue of the given capacity, with the slot its producer
\* holds and the slots its consumers hold from peek: free or queued, held by the
\* producer, or held by a consumer (the queue's head, until pop), never two of
\* them, and capacity slots in all.
C20_Slots(q, capacity, producer, consumers) ==
    LET slots == 1..Len(q.data)
        queued == Range(q.queue)
        by_producer == {producer} \ {NoSlot}
        by_consumer == consumers \ {NoSlot}
    IN  /\ Len(q.data) \in {0, capacity}
        /\ NoDuplicates(q.queue)
        /\ q.pool \cup queued \cup by_producer = slots
        /\ q.pool \cap queued = {}
        /\ q.pool \cap by_producer = {}
        /\ queued \cap by_producer = {}
        /\ by_consumer \subseteq queued
        /\ by_consumer \cap by_producer = {}
        /\ Cardinality(q.pool) + Cardinality(queued \ by_consumer)
           + Cardinality(by_producer) + Cardinality(by_consumer) = Len(q.data)

Last(q) == q[Len(q)]

\* A begin_push of the policy's kind would wait: BLOCK, no free slot, no stop.
C21_MustWait(q, policy, stop) == policy = "BLOCK" /\ q.pool = {} /\ ~stop

C21_Waits ==
    /\ h_pc = "push" =>
          (ENABLED HandlerPush <=> ~C21_MustWait(h_queue, s_policy, should_terminate))
    /\ (a_pc = "ready" /\ a_next <= MaxFrames) =>
          (ENABLED SendFrameBegin <=> ~C21_MustWait(c_queue, c_policy, c_should_terminate))

C21_PushStep ==
    /\ (h_pc = "push" /\ h_pc' = "ack" /\ s_policy = "DISCARD") =>
          /\ h_msg \in enqueued' /\ h_msg \notin refused'
          /\ h_queue'.queue # <<>>
          /\ h_queue'.data[Last(h_queue'.queue)] = h_msg
          /\ IF h_queue.pool = {}
             THEN /\ h_queue.queue # <<>>
                  /\ h_queue'.queue = Append(Tail(h_queue.queue), Head(h_queue.queue))
             ELSE /\ Len(h_queue'.queue) = Len(h_queue.queue) + 1
                  /\ IsPrefix(h_queue.queue, h_queue'.queue)
    /\ (a_pc = "ready" /\ a_pc' = "filling" /\ c_policy = "DISCARD") =>
          /\ a_slot' # NoSlot
          /\ c_queue.pool = {} =>
                /\ c_queue.queue # <<>>
                /\ a_slot' = Head(c_queue.queue)
                /\ c_queue'.queue = Tail(c_queue.queue)
    /\ (a_pc = "filling" /\ a_pc' = "ready" /\ c_policy = "DISCARD") =>
          /\ c_queue'.queue # <<>>
          /\ c_queue'.data[Last(c_queue'.queue)] = a_next
    /\ (h_pc = "push" /\ h_pc' = "ack" /\ s_policy = "BLOCK") =>
          /\ h_queue.pool # {} \/ should_terminate
          /\ h_queue.pool # {} => h_msg \in enqueued'

C22_Borrowed(q, item, producer) ==
    /\ q.queue # <<>>
    /\ Head(q.queue) = item
    /\ item \notin producer

C23_NoCallWaits ==
    /\ c_should_terminate =>
          /\ (a_pc = "ready" /\ a_next <= MaxFrames) => ENABLED SendFrameBegin
          /\ snd_pc = "peek" => ENABLED SenderPeek
          /\ snd_pc = "pop" => ENABLED SenderPop
    /\ should_terminate =>
          /\ k_pc[1] = "peek" => ENABLED GetFramePeek(1)
          /\ k_pc[1] = "pop" => ENABLED GetFramePop(1)

\* A call that would have waited returns the 'no item' result.
C23_NoItemStep ==
    /\ (a_pc = "ready" /\ a_pc' = "filling" /\ C21_MustWait(c_queue, c_policy, FALSE)) =>
          c_should_terminate /\ a_slot' = NoSlot /\ c_queue' = c_queue
    /\ (k_pc[1] = "peek" /\ k_pc'[1] = "receive" /\ Empty(h_queue)) =>
          should_terminate /\ k_item'[1] = NoSlot
    /\ (k_pc[1] = "pop" /\ k_pc'[1] = "idle" /\ Empty(h_queue)) =>
          should_terminate /\ h_queue' = h_queue
    /\ (snd_pc = "peek" /\ snd_pc' # "peek" /\ Empty(c_queue)) =>
          snd_pc' = "exited" /\ c_should_terminate
    /\ (snd_pc = "pop" /\ snd_pc' = "peek" /\ Empty(c_queue)) =>
          c_should_terminate /\ c_queue' = c_queue

C24_AllConsumed ==
    /\ acked = 1..MaxFrames
    /\ Empty(h_queue)
    /\ \A c \in Consumers : k_pc[c] = "idle"

C25_QueueInitialised == Cardinality(h_queue.pool) + Len(h_queue.queue) = HandlerCapacity

\* The handler has read the Calibration, initialised its queue and written the Ack.
C25_HandshakeDone == h_pc \notin {"none", "run_pre"} /\ C25_QueueInitialised

\* C25: the client's sender thread runs, and a frame header is written, only
\* after the handler has finished the handshake (Calibration read, queue of
\* capacity 5 initialised, Ack written); the handler reads a frame header or
\* pushes a frame only with its queue initialised.
C25_HandshakeBeforeFrames ==
    /\ (snd_pc # "none" \/ written > 0) => C25_HandshakeDone
    /\ h_pc \in {"frame", "newest", "push", "ack"} => C25_QueueInitialised
    /\ (h_pc \notin {"none", "run_pre"} /\ connection_ok) => C25_QueueInitialised

\* run_pre has returned without reading the Calibration: the queue was never
\* initialised.
C26_HandshakeFailed == h_pc \notin {"none", "run_pre"} /\ h_queue = NewQueue

\* C26: a handler whose read of the Calibration failed is never in the active
\* map and never in its receive loop's body.
C26_FailedHandshakeNotPublished ==
    C26_HandshakeFailed =>
        /\ 0 \notin client_handlers
        /\ h_pc \notin {"frame", "newest", "push", "ack"}

\* C27: the k-th accepted connection gets client id k-1, so the ids strictly
\* increase in the order of acceptance and none is given twice; every id in the
\* active clients or the finished clients is smaller than the next client id.
C27_IdsInAcceptOrder ==
    /\ \A k \in 1..Len(ms_ids) : ms_ids[k] = k - 1
    /\ StrictlyIncreasing(ms_ids)
    /\ \A id \in ms_client_handlers \cup ms_finished_clients : id < ms_next_client_id

\* Two connections were accepted: the first client has finished, the second is
\* active.
C27_Witness ==
    /\ ms_ids = <<0, 1>>
    /\ ms_finished_clients = {0}
    /\ ms_client_handlers = {1}

C28_Disjoint ==
    /\ ms_client_handlers \cap ms_finished_clients = {}
    /\ \A n \in Conns : ms_entered[n] <= 1

C28_FinishedStep ==
    /\ ms_finished_clients \subseteq ms_finished_clients'
    /\ ms_finished_clients \cap ms_client_handlers' = {}

\* C28: no client id is at once in the active clients and in the finished
\* clients; a handler is added to the active clients at most once; an id in the
\* finished clients stays there and is never added to the active clients again.
C28_ActiveThenFinished == []C28_Disjoint /\ [][C28_FinishedStep]_vars

\* Both clients were active once and have finished.
C28_Witness ==
    /\ ms_finished_clients = {0, 1}
    /\ ms_client_handlers = {}
    /\ \A n \in 1..2 : ms_entered[n] = 1

\* C29: the accepted socket of every client whose id is in the finished clients
\* has been closed.
C29_FinishedSocketClosed ==
    \A n \in 1..Len(ms_ids) :
        ms_ids[n] \in ms_finished_clients => ms_sock[n] = "closed"

C30_NoLateIo ==
    /\ \A n \in Conns : ~ms_late_io[n]
    /\ (ms_acc_pc = "select" /\ ~ms_should_terminate /\ ms_accepted < ms_connected) =>
          ENABLED MsAccept
    /\ (ms_acc_pc = "lock" /\ ms_lock = "none") => ENABLED MsSpawn

C30_FlagStep ==
    \A n \in Conns :
        /\ ~ms_connection_ok[n] => ~ms_connection_ok'[n]
        /\ (ms_net[n] = "down" /\ ms_pc[n] \in {"run_pre", "pre_ack", "frame", "ack"}
               /\ ms_pc'[n] # ms_pc[n]) => ~ms_connection_ok'[n]
        /\ (ms_pc[n] = "run_pre" /\ ms_pc'[n] = "publish") => ~ms_connection_ok'[n]
        /\ (ms_pc[n] = "frame" /\ ms_pc'[n] = "loop") => ~ms_connection_ok'[n]
        /\ (ms_pc[n] = "loop" /\ ms_pc'[n] = "frame") =>
              ms_net[n] = "ok" /\ ms_connection_ok[n]

C31_StoredIsLatest ==
    (sk_pc \notin {"ack", "process"} /\ sk_skeletons # NoSkeletons) =>
        /\ sk_skeletons.frame = sk_frame.b
        /\ sk_people_mask.frame = sk_frame.b
        /\ sk_people_mask.shape = sk_frame.a

C31_BeginStep ==
    /\ (sk_pc' = "frame" /\ sk_pc # "frame") => sk_pc = "header"
    /\ (sk_pc' = "ack" /\ sk_pc # "ack") =>
          /\ sk_pc = "frame"
          /\ Head(sk_c2s).type = "frame" /\ Head(sk_c2s).a = sk_header
          /\ sk_frame' = Head(sk_c2s)
    /\ (sk_pc' = "process" /\ sk_pc # "process") => sk_pc = "ack"
    /\ sk_pc = "ack" => sk_pc' \in {"ack", "process"}
    /\ (sk_pc = "process" /\ sk_pc' # "process") =>
          /\ sk_skeletons'.frame = sk_frame.b
          /\ sk_people_mask' = [shape |-> sk_frame.a, frame |-> sk_frame.b,
                                intrinsics |-> sk_intrinsics]
    /\ sk_skeletons' # sk_skeletons => (sk_pc = "process" \/ sk_skeletons' = NoSkeletons)
    /\ (SkEndStep /\ Len(sk_s2c') = Len(sk_s2c) + 3) =>
          /\ sk_s2c'[Len(sk_s2c') - 1].b = sk_frame.b
          /\ sk_s2c'[Len(sk_s2c')].b = sk_frame.b

\* C31: a BEGIN_DETECTION is handled as header, frame of the announced shape,
\* Ack, frame processor; the result is stored and replaces what was stored, so
\* a reply to END_DETECTION carries the result of the frame read last.
C31_BeginStoresLatest == []C31_StoredIsLatest /\ [][C31_BeginStep]_vars

\* The detector began twice and ended once: it was returned the skeletons and
\* the mask of the second frame.
C31_Witness ==
    /\ rd_ret.call = "end" /\ rd_ret.ok
    /\ rd_begins_ok = 2
    /\ rd_ret.skeletons.frame = 2 /\ rd_ret.mask.frame = 2

C32_CalibStep ==
    /\ (sk_pc = "calib" /\ sk_pc' # "calib") =>
          /\ sk_skeletons' = sk_skeletons /\ sk_people_mask' = sk_people_mask
          /\ sk_s2c' = sk_s2c
          /\ IF sk_c2s' # sk_c2s
             THEN /\ Head(sk_c2s).type = "calib"
                  /\ sk_c2s' = Tail(sk_c2s)
                  /\ sk_intrinsics' = Head(sk_c2s).a
                  /\ Len(sk_log') = Len(sk_log) + 1
             ELSE /\ sk_intrinsics' = sk_intrinsics
                  /\ ~sk_connection_ok'
    /\ sk_intrinsics' # sk_intrinsics => sk_pc \in {"calib", "accept"}
    /\ (sk_pc = "process" /\ sk_pc' # "process") =>
          sk_people_mask'.intrinsics = sk_intrinsics

\* C32: handling SET_CALIBRATION reads one calibration message and stores its
\* intrinsics, leaves the stored skeletons and mask as they are, and only a
\* SET_CALIBRATION or a new client changes the stored intrinsics, which every
\* BEGIN_DETECTION renders its mask with.
C32_SetCalibration == [][C32_CalibStep]_vars

\* The calibration was set after a frame had been processed: the stored result
\* of frame 1, rendered without intrinsics, is still there.
C32_Witness ==
    /\ sk_pc = "control"
    /\ sk_intrinsics = 2
    /\ sk_skeletons.frame = 1 /\ sk_people_mask.frame = 1
    /\ sk_people_mask.intrinsics = NoIntrinsics

\* The hook has been called once for each client that has come and gone.
C33_HookPerDisconnect ==
    sk_hooks = rd_clients - (IF sk_conn = "none" THEN 0 ELSE 1)

C33_ClientStep ==
    /\ (sk_pc = "accept" /\ sk_pc' # "accept") =>
          /\ sk_conn = "pending" /\ sk_conn' = "open"
          /\ sk_connection_ok'
          /\ sk_intrinsics' = NoIntrinsics
          /\ sk_skeletons' = NoSkeletons /\ sk_people_mask' = NoMask
    /\ (sk_pc # "hook" /\ sk_pc' = "hook") => ~sk_connection_ok'
    /\ sk_hooks' # sk_hooks =>
          /\ sk_hooks' = sk_hooks + 1
          /\ sk_pc = "hook" /\ sk_pc' = "accept"
          /\ ~sk_connection_ok
    /\ (sk_pc = "hook" /\ sk_pc' # "hook") =>
          sk_hooks' = sk_hooks + 1 /\ sk_pc' = "accept"
    /\ sk_conn' = "open" => (sk_conn = "open" \/ sk_pc = "accept")
    /\ Len(sk_s2c') > Len(sk_s2c) =>
          /\ sk_conn = "open" /\ sk_pc = "end"
          /\ sk_skeletons # NoSkeletons

C38_QueueInitialisedOnceOneSender ==
    /\ mc_inits <= 1
    /\ ~mc_early_use
    /\ Cardinality(McStarted) <= 1
    /\ mc_pc = "terminated" => McStarted \subseteq mc_joined

\* C34: the handler's queue never holds more than HandlerCapacity frames and a
\* client's queue never holds more than ClientCapacity frames.
C34_QueuesWithinCapacity ==
    /\ Len(h_queue.queue) <= HandlerCapacity
    /\ Len(c_queue.queue) <= ClientCapacity
    /\ Len(mc_queue.queue) <= ClientCapacity

\* C35: a get_frame call that waits on the empty queue does not stop the receive
\* loop: the handler, having read a frame, can save it as the newest frame (and
\* go on to enqueue it) while the call waits.
C35_WaitingGetFrameLetsHandlerRun ==
    \A c \in Consumers :
        (k_pc[c] = "peek" /\ Empty(h_queue) /\ h_pc = "newest") => ENABLED HandlerSetNewest

\* C36: a receiver is never called with the "no item" result, and every frame
\* get_frame has popped is one it passed to its receiver.
C36_ReceiverOnlyGetsFrames ==
    /\ ~none_passed
    /\ Range(popped) \subseteq Range(delivered)

\* The frames in the handler's queue, oldest first.
QueuedFrames(q) == [i \in 1..Len(q.queue) |-> q.data[q.queue[i]]]

C37_NewestCoversQueue ==
    /\ ~Empty(h_queue) => newest_frame_msg # 0
    /\ \A f \in Range(QueuedFrames(h_queue)) \cup enqueued \cup refused \cup acked :
          f <= newest_frame_msg
    /\ IF h_pc = "newest" THEN newest_frame_msg < h_msg ELSE newest_frame_msg = h_msg

C37_NewestStep ==
    newest_frame_msg' # newest_frame_msg =>
        /\ h_pc = "newest" /\ h_pc' = "push"
        /\ newest_frame_msg' = h_msg
        /\ newest_frame_msg' > newest_frame_msg

\* C37: the newest-frame slot holds the frame the receive loop read last (the
\* one before it while the loop is about to save the frame it has just read):
\* it is set whenever the queue is not empty, no queued, pushed or acknowledged
\* frame is newer, and only the receive loop's saving of a newer frame changes
\* it, so it is kept when the queue empties.
C37_NewestFrameIsLatest == []C37_NewestCoversQueue /\ [][C37_NewestStep]_vars

\* get_frame has emptied the queue and the newest frame is still there.
C37_Witness ==
    /\ Empty(h_queue)
    /\ popped = <<1, 2>>
    /\ newest_frame_msg = 2
    /\ h_pc \notin {"newest", "push"}

\* The connection to the detector being served holds.
C39_Reliable == sk_kind = "detector" /\ sk_conn = "open" /\ sk_net = "ok" /\ rd_alive

\* The service has handled every request written so far.
C39_CaughtUp == sk_pc = "control" /\ sk_c2s = <<>>

C39_InSync ==
    C39_Reliable =>
        /\ (rd_pc \in {"end_size", "end_data", "end_mask"} /\ C39_CaughtUp) =>
              Len(sk_s2c) = (CASE rd_pc = "end_size" -> 3
                               [] rd_pc = "end_data" -> 2
                               [] rd_pc = "end_mask" -> 1)
        /\ (rd_pc = "idle" /\ C39_CaughtUp) =>
              /\ sk_s2c = <<>>
              /\ IF rd_people_mask_shape = NoShape
                 THEN sk_skeletons = NoSkeletons
                 ELSE /\ sk_skeletons # NoSkeletons
                      /\ sk_people_mask.shape = rd_people_mask_shape

C39_ReadStep ==
    (C39_Reliable /\ sk_conn' = "open" /\ sk_net' = "ok") =>
        /\ Len(sk_s2c') < Len(sk_s2c) =>
              /\ sk_s2c' = Tail(sk_s2c)
              /\ CASE rd_pc = "end_size" -> Head(sk_s2c).type = "int"
                   [] rd_pc = "end_data" ->
                        Head(sk_s2c).type = "data" /\ Head(sk_s2c).a = rd_size
                   [] rd_pc = "end_mask" ->
                        Head(sk_s2c).type = "mask" /\ Head(sk_s2c).a = rd_shape
                   [] OTHER -> FALSE
        /\ Len(sk_c2s') < Len(sk_c2s) =>
              /\ sk_c2s' = Tail(sk_c2s)
              /\ CASE sk_pc = "control" -> Head(sk_c2s).type = "control"
                   [] sk_pc = "header" -> Head(sk_c2s).type = "header"
                   [] sk_pc = "frame" ->
                        Head(sk_c2s).type = "frame" /\ Head(sk_c2s).a = sk_header
                   [] sk_pc = "calib" -> Head(sk_c2s).type = "calib"
                   [] OTHER -> FALSE

\* C39: while the connection holds, the detector and the service read each
\* message as the type and size the other wrote it; an end_detection that waits
\* has its whole reply coming; between calls nothing unread is left, and the
\* mask shape the detector will expect is the shape of the mask the service has
\* stored.
C39_ByteSynchronised == []C39_InSync /\ [][C39_ReadStep]_vars

\* set_calibration, begin_detection and end_detection were answered in full.
C39_Witness ==
    /\ C39_Reliable /\ C39_CaughtUp /\ sk_s2c = <<>>
    /\ rd_calls = 3 /\ rd_pc = "idle"
    /\ rd_ret.call = "end" /\ rd_ret.ok
    /\ rd_ret.mask.intrinsics = 1 /\ rd_ret.mask.frame = 2
    /\ rd_ret.mask.shape = rd_shape

\* A read_message call for a message of 0 bytes is under way.
C40_ReadingNothing == su_rpc = "loop" /\ su_size = 0

\* The call can return and can do nothing else: no recv, no timeout, no error.
C40_ReturnsAtOnce ==
    C40_ReadingNothing =>
        /\ ENABLED SuReadDone
        /\ ~ENABLED SuRecv /\ ~ENABLED SuRecvNothing
        /\ ~ENABLED SuRecvError /\ ~ENABLED SuRecvTimeout

C40_ZeroStep ==
    C40_ReadingNothing =>
        /\ UNCHANGED <<su_data, su_consumed, su_timeouts>>
        /\ su_rpc' = "idle" =>
              /\ su_ret' = "true"
              /\ su_msg' = <<>>
              /\ UNCHANGED <<su_stream, su_conn>>

\* C40: read_message for a message of 0 bytes returns true at once: it never
\* calls recv and never waits, whatever the state of the connection and of the
\* stream, and it consumes no byte.
C40_ZeroSizeReadReturnsTrue == []C40_ReturnsAtOnce /\ [][C40_ZeroStep]_vars

\* A read of 0 bytes returned true on a connection that was reset before the
\* peer wrote anything.
C40_Witness ==
    /\ su_rpc = "idle" /\ su_size = 0 /\ su_ret = "true"
    /\ su_conn = "reset" /\ su_sent = <<>> /\ su_consumed = <<>>

====
